---------------------------- MODULE Spec2Model ----------------------------
(***************************************************************************)
(* A model of the Lucy interpreter (st1020/lucy): the bytecode generator   *)
(* of src/lucy/codegen.py, the value model of src/lucy/lucy_data.py and    *)
(* the virtual machine of src/lucy/lvm.py.                                 *)
(*                                                                         *)
(* A behaviour is the run of one VM on one program.  Init picks a program  *)
(* from Programs (an AST, with the ASTs of the package files it can        *)
(* import, or a code program built by hand), generates the CodePrograms    *)
(* with generate and builds the state LVM.__init__ leaves; every action is *)
(* one turn of the `while True` loop of LVM.run for one opcode.  The run   *)
(* of an LVM that IMPORT constructs for a package file is part of the      *)
(* behaviour: the importing LVM waits in `suspended` until it returns.     *)
(*                                                                         *)
(* Indexes (pc, constant and name indexes, addresses) are 0-based as in    *)
(* the source; TLA+ sequences are 1-based, hence the "+ 1" on accesses.    *)
(* lvm.py compares opcodes with OPCodes.GET_LEN, a member that the         *)
(* codegen.py of this snapshot does not declare; the model takes it to be  *)
(* an opcode different from all those the generator emits.                 *)
(***************************************************************************)
EXTENDS Integers, Sequences, FiniteSets, TLC

(***************************************************************************)
(* Bounds of the model.                                                    *)
(***************************************************************************)
\* the iterator programs yield 0 .. MaxIter values before Null
MaxIter == 2
\* the argument-passing programs call functions of 0 .. MaxArgs parameters
MaxArgs == 2
\* add_const_list calls on one generator
MaxCalls == 3
\* loops around the statement handed to gen_code_statement: 0 .. MaxDepth
MaxDepth == 2

(***************************************************************************)
(* Values (lucy_data.py).  A value is a record tagged by t.                *)
(***************************************************************************)
Null == [t |-> "null"]
BoolV(b) == [t |-> "bool", b |-> b]
IntV(i) == [t |-> "int", i |-> i]
\* a Float with payload f stands for the double f.0
FloatV(f) == [t |-> "float", f |-> f]
StrV(s) == [t |-> "str", s |-> s]
\* a TableData object, by its identity in tables
TableV(r) == [t |-> "table", r |-> r]
\* a ClosureData object, by its identity in closures
ClosureV(c) == [t |-> "closure", c |-> c]
\* the singleton GlobalReference()
GlobalReference == [t |-> "gref"]

\* isinstance(v, NullData) etc.; bool is a subclass of int in Python
IsNullData(v) == v.t = "null"
IsBooleanData(v) == v.t = "bool"
IsIntegerData(v) == v.t \in {"int", "bool"}
IsFloatData(v) == v.t = "float"
IsStringData(v) == v.t = "str"
IsTableData(v) == v.t = "table"
IsClosureData(v) == v.t = "closure"
IsGlobalReference(v) == v.t = "gref"
IsHashable(v) == v.t \in {"null", "bool", "int", "float", "str"}

\* the number a bool, int or float compares and hashes as
NumVal(v) ==
  IF v.t = "bool" THEN (IF v.b THEN 1 ELSE 0)
  ELSE IF v.t = "int" THEN v.i
  ELSE v.f

IsNumeric(v) == v.t \in {"bool", "int", "float"}

\* Python's == (with equal hashes) on two dict keys: numbers compare by
\* value across bool, int and float; everything else by kind and payload
PyEq(a, b) ==
  IF IsNumeric(a) /\ IsNumeric(b) THEN NumVal(a) = NumVal(b)
  ELSE a.t = b.t /\ a = b

(***************************************************************************)
(* TableData: a Python dict, kept as the sequence of its entries in        *)
(* insertion order.                                                        *)
(***************************************************************************)
Entry(k, v) == [k |-> k, v |-> v]

HasKey(tb, key) == \E n \in 1..Len(tb) : PyEq(tb[n].k, key)

KeyIndex(tb, key) == CHOOSE n \in 1..Len(tb) : PyEq(tb[n].k, key)

RemoveAt(s, n) == [m \in 1..(Len(s) - 1) |-> IF m < n THEN s[m] ELSE s[m + 1]]

\* TableData.__getitem__: the value, or Null for a missing key
TableGetItem(tb, key) ==
  IF HasKey(tb, key) THEN tb[KeyIndex(tb, key)].v ELSE Null

\* dict.pop(key, None) / del d[key] ignoring KeyError
DictPop(tb, key) ==
  IF HasKey(tb, key) THEN RemoveAt(tb, KeyIndex(tb, key)) ELSE tb

\* a TableData.__setitem__ that stores Null like any other value
TableSetItemKeepsNull(tb, key, value) ==
  IF HasKey(tb, key)
  THEN [tb EXCEPT ![KeyIndex(tb, key)].v = value]
  ELSE Append(tb, Entry(key, value))

\* TableData.__setitem__: Null deletes, anything else inserts or replaces
\* (a replaced entry keeps the key object it was inserted with)
TableSetItem(tb, key, value) ==
  IF IsNullData(value) THEN DictPop(tb, key)
  ELSE IF HasKey(tb, key)
       THEN [tb EXCEPT ![KeyIndex(tb, key)] = Entry(tb[KeyIndex(tb, key)].k, value)]
       ELSE Append(tb, Entry(key, value))

(***************************************************************************)
(* The AST (parser.py), as far as the code generator reads it.             *)
(***************************************************************************)
NoNode == [type |-> "None"]
Literal(value) == [type |-> "Literal", value |-> value]
Identifier(name) == [type |-> "Identifier", name |-> name]
BlockStatement(body) == [type |-> "BlockStatement", body |-> body]
IfStatement(test, consequent, alternate) ==
  [type |-> "IfStatement", test |-> test, consequent |-> consequent,
   alternate |-> alternate]
LoopStatement(body) == [type |-> "LoopStatement", body |-> body]
WhileStatement(test, body) == [type |-> "WhileStatement", test |-> test, body |-> body]
ForStatement(left, right, body) ==
  [type |-> "ForStatement", left |-> left, right |-> right, body |-> body]
BreakStatement == [type |-> "BreakStatement"]
ContinueStatement == [type |-> "ContinueStatement"]
GotoStatement(argument) == [type |-> "GotoStatement", argument |-> argument]
ReturnStatement(argument) == [type |-> "ReturnStatement", argument |-> argument]
GlobalStatement(arguments) == [type |-> "GlobalStatement", arguments |-> arguments]
ImportStatement(paths, alias) ==
  [type |-> "ImportStatement", paths |-> paths, alias |-> alias]
AssignmentStatement(left, operator, right) ==
  [type |-> "AssignmentStatement", left |-> left, operator |-> operator,
   right |-> right]
FunctionExpression(params, body, is_closure) ==
  [type |-> "FunctionExpression", params |-> params, body |-> body,
   is_closure |-> is_closure]
Property(key, value) == [type |-> "Property", key |-> key, value |-> value]
TableExpression(properties) == [type |-> "TableExpression", properties |-> properties]
UnaryExpression(operator, argument) ==
  [type |-> "UnaryExpression", operator |-> operator, argument |-> argument]
BinaryExpression(left, operator, right) ==
  [type |-> "BinaryExpression", left |-> left, operator |-> operator,
   right |-> right]
MemberExpression(table, property, expression_type) ==
  [type |-> "MemberExpression", table |-> table, property |-> property,
   expression_type |-> expression_type]
CallExpression(callee, arguments) ==
  [type |-> "CallExpression", callee |-> callee, arguments |-> arguments]

\* isinstance(ast_node, Expression)
IsExpression(node) ==
  node.type \in {"Literal", "Identifier", "FunctionExpression", "TableExpression",
                 "UnaryExpression", "BinaryExpression", "MemberExpression",
                 "CallExpression"}

(***************************************************************************)
(* The expression parser (parser.py, Parser.parse_expression and what it   *)
(* calls).  A Parser is the token list of its lexer, the position of       *)
(* current_token in it, and the ParserError raised ("" when none).  A      *)
(* token type is the value of its TokenType.  The function and table       *)
(* syntax is left out: its tokens are not in the token lists parsed here.  *)
(***************************************************************************)
Token(type, value) == [type |-> type, value |-> value]

OperatorInfo(token_type, precedence, associativity) ==
  [token_type |-> token_type, value |-> token_type, precedence |-> precedence,
   associativity |-> associativity]

literal_const == {"null", "true", "false", "INTEGER", "FLOAT", "STRING"}

primary_operator_list == {"(", "[", ".", "::"}

unary_operator_list == {"+", "-", "!", "#"}

\* a table in which `is` has the precedence of == and !=
binary_operator_list_is_4 ==
  <<OperatorInfo("*", 7, TRUE), OperatorInfo("/", 7, TRUE),
    OperatorInfo("%", 7, TRUE),
    OperatorInfo("+", 6, TRUE), OperatorInfo("-", 6, TRUE),
    OperatorInfo("<", 5, TRUE), OperatorInfo("<=", 5, TRUE),
    OperatorInfo(">", 5, TRUE), OperatorInfo(">=", 5, TRUE),
    OperatorInfo("==", 4, TRUE), OperatorInfo("!=", 4, TRUE),
    OperatorInfo("is", 4, TRUE),
    OperatorInfo("and", 2, TRUE), OperatorInfo("or", 1, TRUE)>>

binary_operator_list ==
  <<OperatorInfo("*", 7, TRUE), OperatorInfo("/", 7, TRUE),
    OperatorInfo("%", 7, TRUE),
    OperatorInfo("+", 6, TRUE), OperatorInfo("-", 6, TRUE),
    OperatorInfo("<", 5, TRUE), OperatorInfo("<=", 5, TRUE),
    OperatorInfo(">", 5, TRUE), OperatorInfo(">=", 5, TRUE),
    OperatorInfo("==", 4, TRUE), OperatorInfo("!=", 4, TRUE),
    OperatorInfo("is", 3, TRUE),
    OperatorInfo("and", 2, TRUE), OperatorInfo("or", 1, TRUE)>>

\* Parser.__init__
Parser(token_list) == [token_list |-> token_list, index |-> 1, error |-> ""]

current_token(parser) == parser.token_list[parser.index]

\* Parser.error: the first ParserError ends the parse
ParserError(parser) ==
  IF parser.error = "" THEN [parser EXCEPT !.error = "UNEXPECTED_TOKEN"] ELSE parser

advance_token(parser) ==
  IF current_token(parser).type = "EOF" THEN ParserError(parser)
  ELSE [parser EXCEPT !.index = @ + 1]

token_match(parser, token_type) ==
  IF current_token(parser).type # token_type THEN ParserError(parser) ELSE parser

\* what a parse method returns: the node, and the parser after it
Parsed(node, parser) == [node |-> node, parser |-> parser]

\* the operator_info the for loop of parse_expression leaves in
\* current_operator_info: the last one of the list with the token's type,
\* 0 for None
OperatorInfoOf(token) ==
  LET found == {n \in 1..Len(binary_operator_list) :
                  binary_operator_list[n].token_type = token.type}
  IN IF found = {} THEN 0
     ELSE CHOOSE n \in found : \A other \in found : other <= n

RECURSIVE parse_expression(_, _)
RECURSIVE parse_binary(_, _)
RECURSIVE parse_expression_unary(_)
RECURSIVE parse_expression_primary(_)
RECURSIVE parse_primary(_)
RECURSIVE parse_arguments(_, _)
RECURSIVE parse_expression_atom(_)

parse_expression(parser, min_precedence) ==
  parse_binary(parse_expression_unary(parser), min_precedence)

\* the while loop of parse_expression, with left parsed so far
parse_binary(left, min_precedence) ==
  LET current_operator_info == OperatorInfoOf(current_token(left.parser))
      operator_info == binary_operator_list[current_operator_info]
  IN IF current_operator_info = 0 THEN left
     ELSE IF operator_info.precedence < min_precedence THEN left
     ELSE LET precedence == operator_info.precedence
              right == parse_expression(advance_token(left.parser),
                                        IF operator_info.associativity
                                        THEN precedence + 1 ELSE precedence)
          IN parse_binary(Parsed(BinaryExpression(left.node, operator_info.value,
                                                  right.node),
                                 right.parser),
                          min_precedence)

parse_expression_unary(parser) ==
  LET type == current_token(parser).type
  IN IF type \in literal_const \cup {"ID", "("}
     THEN parse_expression_primary(parser)
     ELSE IF type \in unary_operator_list
     THEN LET argument == parse_expression_primary(advance_token(parser))
          IN Parsed(UnaryExpression(current_token(parser).value, argument.node),
                    argument.parser)
     ELSE IF OperatorInfoOf(current_token(parser)) # 0
     THEN Parsed(NoNode, ParserError(parser))
     ELSE Parsed(NoNode, parser)

\* the arguments of a call, up to its closing parenthesis
parse_arguments(arguments, parser) ==
  IF parser.error # "" \/ current_token(parser).type = ")"
  THEN Parsed(arguments, parser)
  ELSE LET r == parse_expression(parser, 1)
       IN IF current_token(r.parser).type = ")"
          THEN Parsed(Append(arguments, r.node), r.parser)
          ELSE parse_arguments(Append(arguments, r.node),
                               advance_token(token_match(r.parser, ",")))

\* the while loop of parse_expression_primary, with left parsed so far
parse_primary(left) ==
  LET type == current_token(left.parser).type
  IN IF left.parser.error # "" \/ type \notin primary_operator_list THEN left
     ELSE IF type = "("
     THEN LET r == parse_arguments(<<>>, advance_token(left.parser))
          IN parse_primary(Parsed(CallExpression(left.node, r.node),
                                  advance_token(r.parser)))
     ELSE IF type = "["
     THEN LET r == parse_expression(advance_token(left.parser), 1)
          IN parse_primary(Parsed(MemberExpression(left.node, r.node, "[]"),
                                  advance_token(token_match(r.parser, "]"))))
     ELSE LET r == token_match(advance_token(left.parser), "ID")
          IN parse_primary(
               Parsed(MemberExpression(left.node,
                                       Identifier(current_token(r).value), type),
                      advance_token(r)))

parse_expression_primary(parser) == parse_primary(parse_expression_atom(parser))

parse_expression_atom(parser) ==
  LET type == current_token(parser).type
  IN IF type = "("
     THEN LET r == parse_expression(advance_token(parser), 1)
          IN Parsed(r.node, advance_token(token_match(r.parser, ")")))
     ELSE IF type = "ID"
     THEN Parsed(Identifier(current_token(parser).value), advance_token(parser))
     ELSE IF type \in literal_const
     THEN Parsed(Literal(current_token(parser).value), advance_token(parser))
     ELSE Parsed(NoNode, ParserError(parser))

(***************************************************************************)
(* The code generator (codegen.py).                                        *)
(*                                                                         *)
(* An item of a code list under construction is a Code (op, argument) or   *)
(* an Address placeholder.  Address objects are told apart by identity in  *)
(* the source; here every Address (a Function is one) gets a number, and   *)
(* an item is [op, arg, lab]: a placeholder is op = "LABEL" with lab its   *)
(* number, a Code whose argument is an Address has lab > 0.                *)
(***************************************************************************)
\* the argument None of an instruction that takes none
NoArg == -1

Code(op, arg) == [op |-> op, arg |-> arg, lab |-> 0]
CodeAddr(op, lab) == [op |-> op, arg |-> NoArg, lab |-> lab]
Address(lab) == [op |-> "LABEL", arg |-> NoArg, lab |-> lab]

\* a Function descriptor as a constant; id is its identity, base_function
\* the identity of another Function (0 for None), func names the host
\* callable of an ExtendFunction ("" for a Lucy function)
Function(id, params_num, is_closure) ==
  [t |-> "function", id |-> id, params_num |-> params_num, address |-> NoArg,
   is_closure |-> is_closure, base_function |-> 0, func |-> ""]

cmp_op == <<"<", "<=", "==", "!=", ">", ">=">>

IndexOf(seq, x) == (CHOOSE n \in 1..Len(seq) : seq[n] = x) - 1

binary_operator_to_opcodes(operator) ==
  CASE operator = "*" -> "MUL"
    [] operator = "/" -> "DIV"
    [] operator = "+" -> "ADD"
    [] operator = "%" -> "MOD"
    [] operator = "-" -> "SUB"
    [] operator = "is" -> "IS"

\* the first character of a compound assignment operator
OperatorHead(operator) ==
  CASE operator = "+=" -> "+"
    [] operator = "-=" -> "-"
    [] operator = "*=" -> "*"
    [] operator = "/=" -> "/"
    [] operator = "%=" -> "%"

\* CodeGenerator.__init__; func_list holds the finished functions,
\* naddr counts the Address objects created so far
CodeGenerator ==
  [func_list |-> <<>>, func_stack |-> <<0>>,
   continue_label_list |-> <<>>, break_label_list |-> <<>>,
   const_list |-> <<Null, BoolV(TRUE), BoolV(FALSE)>>, name_list |-> <<>>,
   naddr |-> 0, error |-> ""]

\* raise CodeGeneratorError(error_code): the first error ends the generation
Raise(g, error_code) == IF g.error = "" THEN [g EXCEPT !.error = error_code] ELSE g

\* an _add_data_list that compares with == alone, without type(value) ==
\* type(item)
AddDataIndexByValue(value, data_list) ==
  IF \E n \in 1..Len(data_list) : PyEq(value, data_list[n])
  THEN (CHOOSE n \in 1..Len(data_list) :
          /\ PyEq(value, data_list[n])
          /\ \A m \in 1..(n - 1) : ~PyEq(value, data_list[m])) - 1
  ELSE Len(data_list)

\* _add_data_list: the index of the first item with type(value) ==
\* type(item) and value == item, else append.  A constant carries its type
\* in its tag t, so equal records are equal values of the same type.
AddDataIndex(value, data_list) ==
  IF \E n \in 1..Len(data_list) : value = data_list[n]
  THEN (CHOOSE n \in 1..Len(data_list) :
          /\ value = data_list[n]
          /\ \A m \in 1..(n - 1) : value # data_list[m]) - 1
  ELSE Len(data_list)

AddDataList(value, data_list) ==
  IF \E n \in 1..Len(data_list) : value = data_list[n]
  THEN data_list
  ELSE Append(data_list, value)

add_name_index(g, value) == AddDataIndex(value, g.name_list)
add_name_list(g, value) ==
  [g EXCEPT !.name_list = AddDataList(value, g.name_list)]

add_const_index(g, value) == AddDataIndex(value, g.const_list)
add_const_list(g, value) ==
  [g EXCEPT !.const_list = AddDataList(value, g.const_list)]

\* the outermost item of a label list, where the innermost is meant
Outermost(s) == s[1]

\* list[-1]; list.pop() leaves Front
Last(s) == s[Len(s)]
Front(s) == SubSeq(s, 1, Len(s) - 1)

\* '.'.join(names)
RECURSIVE JoinPath(_)
JoinPath(names) ==
  IF Len(names) = 1 THEN names[1]
  ELSE names[1] \o "." \o JoinPath(Tail(names))

RECURSIVE gen_code(_, _), gen_code_statement(_, _), gen_code_list(_, _, _)
RECURSIVE gen_properties(_, _), gen_globals(_, _), gen_params(_, _)

\* the result of generating a node: the code list and the generator after
Gen(code, g) == [code |-> code, g |-> g]

\* gen_code_statement / gen_code over a list of nodes, in order
gen_code_list(nodes, g, statement) ==
  IF nodes = <<>> THEN Gen(<<>>, g)
  ELSE LET first == IF statement THEN gen_code_statement(nodes[1], g)
                    ELSE gen_code(nodes[1], g)
           rest == gen_code_list(Tail(nodes), first.g, statement)
       IN Gen(first.code \o rest.code, rest.g)

gen_properties(properties, g) ==
  IF properties = <<>> THEN Gen(<<>>, g)
  ELSE LET key == gen_code(properties[1].key, g)
           value == gen_code(properties[1].value, key.g)
           rest == gen_properties(Tail(properties), value.g)
       IN Gen(key.code \o value.code \o rest.code, rest.g)

gen_globals(arguments, g) ==
  IF arguments = <<>> THEN Gen(<<>>, g)
  ELSE LET rest == gen_globals(Tail(arguments), add_name_list(g, arguments[1].name))
       IN Gen(<<Code("GLOBAL", add_name_index(g, arguments[1].name))>> \o rest.code,
              rest.g)

gen_params(params, g) ==
  IF params = <<>> THEN Gen(<<>>, g)
  ELSE LET rest == gen_params(Tail(params), add_name_list(g, params[1].name))
       IN Gen(<<Code("STORE", add_name_index(g, params[1].name))>> \o rest.code,
              rest.g)

\* gen_code_statement: an expression used as a statement is popped
gen_code_statement(ast_node, g) ==
  LET r == gen_code(ast_node, g)
  IN IF IsExpression(ast_node) THEN Gen(Append(r.code, Code("POP", NoArg)), r.g)
     ELSE r

gen_code(ast_node, g) ==
  CASE ast_node.type = "Literal" ->
         Gen(<<Code("LOAD_CONST", add_const_index(g, ast_node.value))>>,
             add_const_list(g, ast_node.value))
    [] ast_node.type = "Identifier" ->
         Gen(<<Code("LOAD_NAME", add_name_index(g, ast_node.name))>>,
             add_name_list(g, ast_node.name))
    [] ast_node.type = "Property" ->
         Gen(<<>>, Raise(g, "UNEXPECTED_AST_NODE"))
    [] ast_node.type = "BlockStatement" ->
         gen_code_list(ast_node.body, g, TRUE)
    [] ast_node.type = "IfStatement" ->
         LET false_label == g.naddr + 1
             has_else == ast_node.alternate.type # "None"
             end_label == IF has_else THEN g.naddr + 2 ELSE false_label
             g1 == [g EXCEPT !.naddr = IF has_else THEN @ + 2 ELSE @ + 1]
             test == gen_code(ast_node.test, g1)
             consequent == gen_code_statement(ast_node.consequent, test.g)
             alternate == IF has_else
                          THEN gen_code_statement(ast_node.alternate, consequent.g)
                          ELSE Gen(<<>>, consequent.g)
         IN Gen(test.code \o <<CodeAddr("JUMP_IF_FALSE", false_label)>>
                  \o consequent.code
                  \o <<CodeAddr("JUMP", end_label), Address(false_label)>>
                  \o (IF has_else THEN alternate.code \o <<Address(end_label)>>
                      ELSE <<>>),
                alternate.g)
    [] ast_node.type \in {"LoopStatement", "WhileStatement"} ->
         LET continue_label == g.naddr + 1
             break_label == g.naddr + 2
             g1 == [g EXCEPT !.naddr = @ + 2,
                             !.continue_label_list = Append(@, continue_label),
                             !.break_label_list = Append(@, break_label)]
             test == IF ast_node.type = "WhileStatement"
                     THEN LET r == gen_code(ast_node.test, g1)
                          IN Gen(Append(r.code, CodeAddr("JUMP_IF_FALSE", break_label)),
                                 r.g)
                     ELSE Gen(<<>>, g1)
             body == gen_code_statement(ast_node.body, test.g)
         IN Gen(<<Address(continue_label)>> \o test.code \o body.code
                  \o <<CodeAddr("JUMP", continue_label), Address(break_label)>>,
                [body.g EXCEPT !.continue_label_list = Front(@),
                               !.break_label_list = Front(@)])
    [] ast_node.type = "ForStatement" ->
         LET continue_label == g.naddr + 1
             break_label == g.naddr + 2
             g1 == [g EXCEPT !.naddr = @ + 2,
                             !.continue_label_list = Append(@, continue_label),
                             !.break_label_list = Append(@, break_label)]
             right == gen_code(ast_node.right, g1)
             g2 == add_name_list(right.g, ast_node.left.name)
             body == gen_code_statement(ast_node.body, g2)
         IN Gen(right.code
                  \o <<Address(continue_label), CodeAddr("FOR", break_label),
                       Code("STORE", add_name_index(right.g, ast_node.left.name))>>
                  \o body.code
                  \o <<CodeAddr("JUMP", continue_label), Address(break_label),
                       Code("POP", NoArg)>>,
                [body.g EXCEPT !.continue_label_list = Front(@),
                               !.break_label_list = Front(@)])
    [] ast_node.type = "BreakStatement" ->
         IF Len(g.break_label_list) = 0
         THEN Gen(<<>>, Raise(g, "UNSYNTACTIC_BREAK"))
         ELSE Gen(<<CodeAddr("JUMP", Last(g.break_label_list))>>, g)
    [] ast_node.type = "ContinueStatement" ->
         IF Len(g.continue_label_list) = 0
         THEN Gen(<<>>, Raise(g, "UNSYNTACTIC_CONTINUE"))
         ELSE Gen(<<CodeAddr("JUMP", Last(g.continue_label_list))>>, g)
    [] ast_node.type = "GotoStatement" ->
         LET arguments == gen_code_list(ast_node.argument.arguments, g, FALSE)
             callee == gen_code(ast_node.argument.callee, arguments.g)
         IN Gen(arguments.code \o callee.code
                  \o <<Code("GOTO", Len(ast_node.argument.arguments))>>,
                callee.g)
    [] ast_node.type = "ReturnStatement" ->
         IF ast_node.argument.type = "None"
         THEN Gen(<<Code("LOAD_CONST", add_const_index(g, Null)), Code("RETURN", NoArg)>>,
                  add_const_list(g, Null))
         ELSE LET r == gen_code(ast_node.argument, g)
              IN Gen(Append(r.code, Code("RETURN", NoArg)), r.g)
    [] ast_node.type = "GlobalStatement" ->
         gen_globals(ast_node.arguments, g)
    [] ast_node.type = "ImportStatement" ->
         LET path == StrV(JoinPath(ast_node.paths))
             g1 == add_const_list(g, path)
             name == IF ast_node.alias = "" THEN Last(ast_node.paths)
                     ELSE ast_node.alias
         IN Gen(<<Code("IMPORT", add_const_index(g, path)),
                  Code("STORE", add_name_index(g1, name))>>,
                add_name_list(g1, name))
    [] ast_node.type = "FunctionExpression" ->
         LET id == g.naddr + 1
             base_function == IF ast_node.is_closure THEN Last(g.func_stack) ELSE 0
             func == [Function(id, Len(ast_node.params), ast_node.is_closure)
                        EXCEPT !.base_function = base_function]
             g1 == [add_const_list(g, func) EXCEPT !.naddr = id,
                                                  !.func_stack = Append(@, id)]
             params == gen_params(ast_node.params, g1)
             body == gen_code_statement(ast_node.body, params.g)
             none == add_const_list(body.g, Null)
             code_list == <<Address(id)>> \o params.code \o body.code
                            \o <<Code("LOAD_CONST", add_const_index(body.g, Null)),
                                 Code("RETURN", NoArg)>>
         IN Gen(<<Code("LOAD_CONST", add_const_index(g, func))>>,
                [none EXCEPT !.func_list =
                                Append(@, [id |-> id,
                                           base_function |-> base_function,
                                           is_closure |-> ast_node.is_closure,
                                           code_list |-> code_list]),
                             !.func_stack = Front(@)])
    [] ast_node.type = "TableExpression" ->
         LET r == gen_properties(ast_node.properties, g)
         IN Gen(Append(r.code, Code("BUILD_TABLE", Len(ast_node.properties))), r.g)
    [] ast_node.type = "UnaryExpression" ->
         LET r == gen_code(ast_node.argument, g)
         IN Gen(r.code \o (CASE ast_node.operator = "-" -> <<Code("NEG", NoArg)>>
                             [] ast_node.operator = "!" -> <<Code("NOT", NoArg)>>
                             [] OTHER -> <<>>),
                r.g)
    [] ast_node.type = "BinaryExpression" ->
         IF ast_node.operator \in {"and", "or"}
         THEN LET label == g.naddr + 1
                  left == gen_code(ast_node.left, [g EXCEPT !.naddr = label])
                  right == gen_code(ast_node.right, left.g)
              IN Gen(left.code
                       \o <<CodeAddr(IF ast_node.operator = "and"
                                     THEN "JUMP_IF_FALSE_OR_POP"
                                     ELSE "JUMP_IF_TRUE_OR_POP", label)>>
                       \o right.code \o <<Address(label)>>,
                     right.g)
         ELSE LET left == gen_code(ast_node.left, g)
                  right == gen_code(ast_node.right, left.g)
              IN Gen(left.code \o right.code
                       \o <<IF \E n \in 1..Len(cmp_op) : cmp_op[n] = ast_node.operator
                            THEN Code("COMPARE_OP", IndexOf(cmp_op, ast_node.operator))
                            ELSE Code(binary_operator_to_opcodes(ast_node.operator),
                                      NoArg)>>,
                     right.g)
    [] ast_node.type = "AssignmentStatement" ->
         IF ast_node.left.type = "Identifier"
         THEN LET value ==
                    IF ast_node.operator = "="
                    THEN gen_code(ast_node.right, g)
                    ELSE LET left == gen_code(ast_node.left, g)
                             right == gen_code(ast_node.right, left.g)
                         IN Gen(left.code \o right.code
                                  \o <<Code(binary_operator_to_opcodes(
                                              OperatorHead(ast_node.operator)), NoArg)>>,
                                right.g)
              IN Gen(Append(value.code,
                            Code("STORE", add_name_index(value.g, ast_node.left.name))),
                     add_name_list(value.g, ast_node.left.name))
         ELSE IF ast_node.left.type = "MemberExpression"
         THEN LET left == gen_code(ast_node.left, g)
                  temp == Last(left.code)
                  right == gen_code(ast_node.right, left.g)
                  set == IF ast_node.left.expression_type = "[]"
                         THEN Code("SET_ITEM", NoArg) ELSE Code("SET_ATTR", NoArg)
              IN IF ast_node.operator = "="
                 THEN Gen(Front(left.code) \o right.code
                            \o <<set, Code("POP", NoArg)>>, right.g)
                 ELSE Gen(Front(left.code) \o <<Code("DUP_TWO", NoArg), temp>>
                            \o right.code
                            \o <<Code(binary_operator_to_opcodes(
                                        OperatorHead(ast_node.operator)), NoArg),
                                 set, Code("POP", NoArg)>>,
                          right.g)
         ELSE Gen(<<>>, g)
    [] ast_node.type = "MemberExpression" ->
         LET table == gen_code(ast_node.table, g)
         IN IF ast_node.expression_type = "[]"
            THEN LET property == gen_code(ast_node.property, table.g)
                 IN Gen(table.code \o property.code \o <<Code("GET_ITEM", NoArg)>>,
                        property.g)
            ELSE LET name == StrV(ast_node.property.name)
                 IN Gen(table.code
                          \o <<Code("LOAD_CONST", add_const_index(table.g, name)),
                               Code("GET_ATTR", NoArg)>>,
                        add_const_list(table.g, name))
    [] ast_node.type = "CallExpression" ->
         IF ast_node.callee.type = "MemberExpression"
              /\ ast_node.callee.expression_type = "."
         THEN LET table == gen_code(ast_node.callee.table, g)
                  name == StrV(ast_node.callee.property.name)
                  arguments == gen_code_list(ast_node.arguments,
                                             add_const_list(table.g, name), FALSE)
              IN Gen(table.code
                       \o <<Code("DUP", NoArg),
                            Code("LOAD_CONST", add_const_index(table.g, name)),
                            Code("GET_ATTR", NoArg), Code("ROT_TWO", NoArg)>>
                       \o arguments.code
                       \o <<Code("CALL", Len(ast_node.arguments) + 1)>>,
                     arguments.g)
         ELSE LET callee == gen_code(ast_node.callee, g)
                  arguments == gen_code_list(ast_node.arguments, callee.g, FALSE)
              IN Gen(callee.code \o arguments.code
                       \o <<Code("CALL", Len(ast_node.arguments))>>,
                     arguments.g)

\* the code lists of the functions, concatenated in func_list order
RECURSIVE FuncCode(_)
FuncCode(func_list) ==
  IF func_list = <<>> THEN <<>>
  ELSE func_list[1].code_list \o FuncCode(Tail(func_list))

\* the instructions of an unrelocated code list, without its placeholders
RECURSIVE StripAddress(_)
StripAddress(code_list) ==
  IF code_list = <<>> THEN <<>>
  ELSE IF code_list[1].op = "LABEL" THEN StripAddress(Tail(code_list))
       ELSE <<code_list[1]>> \o StripAddress(Tail(code_list))

\* an address relocation that forgets the placeholders popped before the
\* Address: its index in the unrelocated list
AddressOfUnpopped(code_list, lab) ==
  IF \E n \in 1..Len(code_list) : code_list[n].op = "LABEL" /\ code_list[n].lab = lab
  THEN (CHOOSE n \in 1..Len(code_list) :
          code_list[n].op = "LABEL" /\ code_list[n].lab = lab) - 1
  ELSE NoArg

\* the address relocation gives an Address: the number of instructions that
\* precede it in the code list (None when the list does not hold it)
AddressOf(code_list, lab) ==
  IF \E n \in 1..Len(code_list) : code_list[n].op = "LABEL" /\ code_list[n].lab = lab
  THEN LET n == CHOOSE n \in 1..Len(code_list) :
                  code_list[n].op = "LABEL" /\ code_list[n].lab = lab
       IN Cardinality({m \in 1..(n - 1) : code_list[m].op # "LABEL"})
  ELSE NoArg

\* a CodeProgram; error is "" unless the generation raised
CodeProgram(code_list, const_list, name_list, error) ==
  [code_list |-> code_list, const_list |-> const_list, name_list |-> name_list,
   error |-> error]

\* CodeGenerator(ast).generate()
generate(ast) ==
  LET top == gen_code(ast, CodeGenerator)
      g == add_const_list(top.g, Null)
      code_list == top.code
                     \o <<Code("LOAD_CONST", add_const_index(top.g, Null)),
                          Code("RETURN", NoArg)>>
                     \o FuncCode(g.func_list)
      codes == StripAddress(code_list)
  IN CodeProgram(
       [n \in 1..Len(codes) |->
          [op |-> codes[n].op,
           arg |-> IF codes[n].lab > 0 THEN AddressOf(code_list, codes[n].lab)
                   ELSE codes[n].arg]],
       [n \in 1..Len(g.const_list) |->
          IF g.const_list[n].t = "function"
          THEN [g.const_list[n] EXCEPT !.address = AddressOf(code_list, g.const_list[n].id)]
          ELSE g.const_list[n]],
       g.name_list,
       g.error)

(***************************************************************************)
(* The state of the virtual machine (lvm.py, class LVM).                   *)
(***************************************************************************)
VARIABLES
  input,              \* the program under execution: its name and parameters
  packages,           \* LVM.packages: the sequence of CodePrograms
  tables,             \* the TableData objects; a table value is an index here
  closures,           \* the ClosureData objects; a closure value is an index here
  call_stack,         \* LVM.call_stack: the sequence of StackFrames
  current_module_id,  \* LVM.current_module_id
  pc,                 \* LVM.pc
  status,             \* "running", "halted" (run returned) or "error" (run raised)
  error,              \* the ErrorCode, or the Python exception, that run raised
  lvm,                \* the LVM whose run executes: its module_id, the closure of
                      \* its global_stack_frame and its builtin_namespace
  suspended,          \* the LVMs whose run waits inside IMPORT for the run of the
                      \* LVM it constructed, the outermost first
  package_paths,      \* LVM.package_paths: per package name, the code program
                      \* _get_code_program gives for the file at its path
  generator,          \* a CodeGenerator whose add_const_list is called directly
  added,              \* the add_const_list calls made on generator, in order:
                      \* the value added and the index returned
  ast_node,           \* the AST node handed to gen_code_statement, or the
                      \* Expression that parse_expression returned
  emitted,            \* the code gen_code_statement returned for ast_node, with
                      \* the code of the functions it added to func_list
  tokens              \* Parser.token_list: the tokens of the source text

\* what no turn of LVM.run touches
code_generator == <<generator, added, ast_node, emitted, tokens>>

vars == <<input, packages, tables, closures, call_stack, current_module_id, pc,
          status, error, lvm, suspended, package_paths, code_generator>>

\* StackFrame.__init__
StackFrame(closure, operate_stack, return_address, no_return) ==
  [closure |-> closure, operate_stack |-> operate_stack,
   return_address |-> return_address, no_return |-> no_return,
   call_flag |-> FALSE]

\* the state of the generator behind a closure made by table.keys / table.values
NoGen == [table |-> Null, pos |-> 0, used |-> 0, phase |-> "none"]

\* ClosureData.__init__; 0 stands for None, variables is the identity of the
\* VariablesDict (0 while the lazily created dict does not exist)
ClosureData(function, module_id, base_closure, global_closure, variables) ==
  [function |-> function, module_id |-> module_id, base_closure |-> base_closure,
   global_closure |-> global_closure, variables |-> variables, gen |-> NoGen]

\* ExtendFunction.__init__
ExtendFunction(func, params_num) ==
  [t |-> "function", id |-> 0, params_num |-> params_num, address |-> NoArg,
   is_closure |-> FALSE, base_function |-> 0, func |-> func]

\* the function None of the global frame's closure
NoFunction ==
  [t |-> "none", id |-> 0, params_num |-> 0, address |-> NoArg,
   is_closure |-> FALSE, base_function |-> 0, func |-> ""]

\* self.module_id
module_id == lvm.module_id

\* self.global_stack_frame.closure
GlobalClosure == lvm.global_stack_frame

\* the identities of the objects the first LVM.__init__ and the libs create
TypeClosure == 2
AssertClosure == 3
KeysClosure == 4
ValuesClosure == 5
RawLenClosure == 6
RawGetClosure == 7
RawSetClosure == 8

\* self.global_stack_frame.closure.variables
GlobalVariables == closures[GlobalClosure].variables

\* self.builtin_namespace
BuiltinNamespace == lvm.builtin_namespace

TableLib == 3

\* LVM.builtin_namespace
builtin_namespace ==
  <<Entry(StrV("type"), ClosureV(TypeClosure)),
    Entry(StrV("assert"), ClosureV(AssertClosure))>>

\* libs/table.py lib_table
table_lib_table ==
  <<Entry(StrV("keys"), ClosureV(KeysClosure)),
    Entry(StrV("values"), ClosureV(ValuesClosure)),
    Entry(StrV("raw_len"), ClosureV(RawLenClosure)),
    Entry(StrV("raw_get"), ClosureV(RawGetClosure)),
    Entry(StrV("raw_set"), ClosureV(RawSetClosure))>>

\* libs/__init__.py lib_table, restricted to the table library (the convert
\* and io libraries are not modelled and no program of the model imports them)
lib_table == <<Entry(StrV("table"), TableV(TableLib))>>

InitialClosures ==
  <<ClosureData(NoFunction, 0, 0, 0, 1),
    ClosureData(ExtendFunction("lucy_type", 1), 0, 0, 0, 0),
    ClosureData(ExtendFunction("lucy_assert", 1), 0, 0, 0, 0),
    ClosureData(ExtendFunction("table_keys", 1), 0, 0, 0, 0),
    ClosureData(ExtendFunction("table_values", 1), 0, 0, 0, 0),
    ClosureData(ExtendFunction("table_raw_len", 1), 0, 0, 0, 0),
    ClosureData(ExtendFunction("table_raw_get", 2), 0, 0, 0, 0),
    ClosureData(ExtendFunction("table_raw_set", 3), 0, 0, 0, 0)>>

InitialTables == <<(<<>>), builtin_namespace, table_lib_table>>

(***************************************************************************)
(* Serialization (dump.py).  A call returns a value or raises a Python     *)
(* exception.  The constants of a generated program are None, bool, int,   *)
(* float, str and Function (T_Data of codegen.py), so the branches of      *)
(* dump_data and load_data for dicts and for the global reference are not  *)
(* modelled.                                                               *)
(***************************************************************************)
PyReturn(value) == [ok |-> TRUE, value |-> value, error |-> ""]
PyRaise(exception) == [ok |-> FALSE, value |-> Null, error |-> exception]

\* dump_data: a Function becomes ['function', {...}]; reading
\* data.extend_argument of an ExtendFunction, which has no such attribute,
\* raises AttributeError
dump_data(data) ==
  IF data.t = "function"
  THEN IF data.func # "" THEN PyRaise("AttributeError")
       ELSE PyReturn([t |-> "list", tag |-> "function",
                      params_num |-> data.params_num, address |-> data.address,
                      extend |-> FALSE, extend_argument |-> Null])
  ELSE PyReturn(data)

\* dump_code: the code list as [name, argument] pairs, then
\* code_program.literal_list, an attribute that a CodeProgram (code_list,
\* name_list, const_list) does not have
dump_code(code_program) ==
  LET code_list == [n \in 1..Len(code_program.code_list) |->
                      <<code_program.code_list[n].op, code_program.code_list[n].arg>>]
  IN IF "literal_list" \notin DOMAIN code_program THEN PyRaise("AttributeError")
     ELSE LET literal_list == [n \in 1..Len(code_program.literal_list) |->
                                 dump_data(code_program.literal_list[n])]
          IN IF \E n \in 1..Len(literal_list) : ~literal_list[n].ok
             THEN literal_list[CHOOSE n \in 1..Len(literal_list) :
                                 /\ ~literal_list[n].ok
                                 /\ \A m \in 1..(n - 1) : literal_list[m].ok]
             ELSE PyReturn([code_list |-> code_list,
                            literal_list |-> [n \in 1..Len(literal_list) |->
                                                literal_list[n].value]])

\* load_data: Function(params_num, address) passes two arguments to
\* Function.__init__(self, params_num) and raises TypeError
load_data(dumped_data) ==
  IF dumped_data.t = "list"
  THEN IF dumped_data.extend
       THEN PyReturn(ExtendFunction(dumped_data.extend_argument,
                                    dumped_data.params_num))
       ELSE PyRaise("TypeError")
  ELSE PyReturn(dumped_data)

\* load_code: the arguments are evaluated, then CodeProgram is called with
\* the keywords code_list and literal_list; CodeProgram.__init__(self,
\* code_list, const_list, name_list) has no parameter literal_list and
\* raises TypeError
load_code(dumped_code) ==
  LET literal_list == [n \in 1..Len(dumped_code.literal_list) |->
                         load_data(dumped_code.literal_list[n])]
  IN IF \E n \in 1..Len(literal_list) : ~literal_list[n].ok
     THEN literal_list[CHOOSE n \in 1..Len(literal_list) :
                         /\ ~literal_list[n].ok
                         /\ \A m \in 1..(n - 1) : literal_list[m].ok]
     ELSE PyRaise("TypeError")

(***************************************************************************)
(* Reading the state.                                                      *)
(***************************************************************************)
Depth == Len(call_stack)
TopFrame == call_stack[Depth]
current_operate_stack == TopFrame.operate_stack
current_closure == TopFrame.closure
current_return_address == TopFrame.return_address
current_code_program == packages[current_module_id + 1]

\* the loop head can fetch: the program counter is inside the code list and
\* call_stack[-1] exists
CanFetch ==
  /\ current_module_id + 1 \in 1..Len(packages)
  /\ pc + 1 \in 1..Len(current_code_program.code_list)
  /\ Depth > 0

current_code == current_code_program.code_list[pc + 1]

Running == status = "running"

\* closure.variables as a dict (an absent dict is created empty on access)
Variables(tb, cl, c) == IF cl[c].variables = 0 THEN <<>> ELSE tb[cl[c].variables]

Top(stack) == stack[Len(stack)]
\* the stack without its n topmost items
Drop(stack, n) == SubSeq(stack, 1, Len(stack) - n)
\* the k-th item from the top, k = 1 for the top
Peek(stack, k) == stack[Len(stack) + 1 - k]

SetTop(cs, frame) == [cs EXCEPT ![Len(cs)] = frame]
SetStack(cs, stack) == [cs EXCEPT ![Len(cs)].operate_stack = stack]

\* a metamethod test that also looks in the table's __base__
HasMetaInherited(tb, value, key) ==
  /\ IsTableData(value)
  /\ LET item == TableGetItem(tb[value.r], StrV(key))
         base == TableGetItem(tb[value.r], StrV("__base__"))
     IN \/ IsClosureData(item)
        \/ /\ IsTableData(base)
           /\ IsClosureData(TableGetItem(tb[base.r], StrV(key)))

\* isinstance(table[key], ClosureData) for a table value
HasMeta(tb, value, key) ==
  /\ IsTableData(value)
  /\ IsClosureData(TableGetItem(tb[value.r], StrV(key)))

(***************************************************************************)
(* Host functions (lvm.py lucy_type, lucy_assert; libs/table.py).          *)
(***************************************************************************)
\* what calling a host function gives: ok is FALSE when the Python callable
\* raised or returned something that is not a Lucy value
HostResult(ok, value, tb, cl) == [ok |-> ok, value |-> value, tables |-> tb, closures |-> cl]

\* lucy_type
lucy_type(data) ==
  CASE IsNullData(data) -> StrV("null")
    [] IsBooleanData(data) -> StrV("bool")
    [] data.t = "int" -> StrV("int")
    [] IsFloatData(data) -> StrV("float")
    [] IsStringData(data) -> StrV("string")
    [] IsTableData(data) -> StrV("table")
    [] IsClosureData(data) -> StrV("function")
    [] OTHER -> GlobalReference

\* isinstance(return_value, LUCY_DATA_TYPE)
IsLucyData(v) == v.t \in {"null", "bool", "int", "float", "str", "table", "closure"}

\* next(item) for the generator of table_keys (values = FALSE) or
\* table_values (values = TRUE).  The dict iterator is created by the first
\* next; it raises when the dict changed size; after the last entry the
\* generator yields Null once and then raises StopIteration.
GeneratorNext(self, values, tb, cl) ==
  LET gen == cl[self].gen
      dict == tb[gen.table.r]
      started == IF gen.phase = "new"
                 THEN [gen EXCEPT !.phase = "iter", !.used = Len(dict), !.pos = 0]
                 ELSE gen
  IN IF gen.phase = "new" /\ ~IsTableData(gen.table) THEN HostResult(FALSE, Null, tb, cl)
     ELSE IF gen.phase = "end" THEN HostResult(FALSE, Null, tb, cl)
     ELSE IF started.used # Len(dict) THEN HostResult(FALSE, Null, tb, cl)
     ELSE IF started.pos < Len(dict)
     THEN LET item == IF values THEN dict[started.pos + 1].v ELSE dict[started.pos + 1].k
          IN HostResult(IsLucyData(item), item, tb,
                        [cl EXCEPT ![self].gen = [started EXCEPT !.pos = @ + 1]])
     ELSE HostResult(TRUE, Null, tb, [cl EXCEPT ![self].gen = [started EXCEPT !.phase = "end"]])

\* closure.function.func(*args) for the closure self; args are in source order
HostApply(func, args, self, tb, cl) ==
  CASE func = "lucy_type" ->
         HostResult(IsLucyData(args[1]), lucy_type(args[1]), tb, cl)
    [] func = "lucy_assert" ->
         \* v is Null or v is False: raise, else return v
         IF IsNullData(args[1]) \/ args[1] = BoolV(FALSE)
         THEN HostResult(FALSE, Null, tb, cl)
         ELSE HostResult(TRUE, args[1], tb, cl)
    [] func \in {"table_keys", "table_values"} ->
         HostResult(TRUE, ClosureV(Len(cl) + 1), tb,
                    Append(cl, [ClosureData(ExtendFunction(
                                              IF func = "table_keys" THEN "keys_next"
                                              ELSE "values_next", 0), 0, 0, 0, 0)
                                  EXCEPT !.gen = [table |-> args[1], pos |-> 0,
                                                  used |-> 0, phase |-> "new"]]))
    [] func = "keys_next" -> GeneratorNext(self, FALSE, tb, cl)
    [] func = "values_next" -> GeneratorNext(self, TRUE, tb, cl)
    [] func = "table_raw_len" ->
         \* len(table); strings are outside the modelled domain of raw_len
         IF IsTableData(args[1])
         THEN HostResult(TRUE, IntV(Len(tb[args[1].r])), tb, cl)
         ELSE HostResult(FALSE, Null, tb, cl)
    [] func = "table_raw_get" ->
         \* table[key]; a dict key is unhashable, a non-table is not indexed
         \* (indexing a string is outside the modelled domain of raw_get)
         IF IsTableData(args[1]) /\ ~IsTableData(args[2])
         THEN LET item == TableGetItem(tb[args[1].r], args[2])
              IN HostResult(IsLucyData(item), item, tb, cl)
         ELSE HostResult(FALSE, Null, tb, cl)
    [] func = "table_raw_set" ->
         \* table[key] = value; returns None
         IF IsTableData(args[1]) /\ ~IsTableData(args[2])
         THEN HostResult(TRUE, Null,
                         [tb EXCEPT ![args[1].r] = TableSetItem(@, args[2], args[3])], cl)
         ELSE HostResult(FALSE, Null, tb, cl)

(***************************************************************************)
(* LVM.code_call.                                                          *)
(***************************************************************************)
\* the fields of the VM after a step
Machine(cs, tb, cl, mod, p, st, err) ==
  [call_stack |-> cs, tables |-> tb, closures |-> cl, current_module_id |-> mod,
   pc |-> p, status |-> st, error |-> err]

Commit(m) ==
  /\ call_stack' = m.call_stack
  /\ tables' = m.tables
  /\ closures' = m.closures
  /\ current_module_id' = m.current_module_id
  /\ pc' = m.pc
  /\ status' = m.status
  /\ error' = m.error
  /\ UNCHANGED <<input, packages, lvm, suspended, package_paths, code_generator>>

Reverse(s) == [n \in 1..Len(s) |-> s[Len(s) + 1 - n]]

\* a code_call that puts a callable table before the arguments popped, where
\* the prologue binds it to the last parameter
code_call_table_first(cs, stack, live, arg_num, return_pc, pop, no_return) ==
  IF Len(stack) < arg_num + 1
  THEN Machine(cs, tables, closures, current_module_id, pc, "error", "IndexError")
  ELSE
    LET popped == [n \in 1..arg_num |-> Peek(stack, n)]
        callee == Peek(stack, arg_num + 1)
        stack1 == Drop(stack, IF pop THEN arg_num + 1 ELSE arg_num)
        callable == HasMeta(tables, callee, "__call__")
        arguments_list == IF callable THEN <<callee>> \o popped ELSE popped
        closure == IF callable THEN TableGetItem(tables[callee.r], StrV("__call__"))
                   ELSE callee
        cs1 == IF live THEN SetStack(cs, stack1) ELSE cs
    IN IF ~IsClosureData(closure)
       THEN Machine(cs1, tables, closures, current_module_id, pc, "error", "TYPE_ERROR")
       ELSE
         LET data == closures[closure.c]
         IN IF Len(arguments_list) # data.function.params_num
            THEN Machine(cs1, tables, closures, current_module_id, pc, "error", "CALL_ERROR")
            ELSE IF data.function.func # ""
            THEN LET r == HostApply(data.function.func, Reverse(arguments_list),
                                    closure.c, tables, closures)
                 IN IF ~r.ok
                    THEN Machine(cs1, tables, closures, current_module_id, pc, "error",
                                 "EXTEND_FUNCTION_ERROR")
                    ELSE Machine(IF live THEN SetStack(cs, Append(stack1, r.value)) ELSE cs,
                                 r.tables, r.closures, current_module_id, return_pc,
                                 "running", "")
            ELSE Machine(
                   Append(cs1, StackFrame(Len(closures) + 1, arguments_list,
                                          <<current_module_id, return_pc>>, no_return)),
                   Append(tables, <<>>),
                   Append(closures, ClosureData(data.function, data.module_id,
                                                data.base_closure, data.global_closure,
                                                Len(tables) + 1)),
                   data.module_id, data.function.address, "running", "")

\* code_call(arg_num, return_pc, pop, no_return) on the call stack cs, with
\* stack the list self.current_operate_stack names.  live says that this
\* list is the operand stack of the top frame of cs; it is not after GOTO
\* popped the frame the list belongs to.
code_call(cs, stack, live, arg_num, return_pc, pop, no_return) ==
  IF Len(stack) < arg_num + 1
  THEN Machine(cs, tables, closures, current_module_id, pc, "error", "IndexError")
  ELSE
    LET popped == [n \in 1..arg_num |-> Peek(stack, n)]
        callee == Peek(stack, arg_num + 1)
        stack1 == Drop(stack, IF pop THEN arg_num + 1 ELSE arg_num)
        callable == HasMeta(tables, callee, "__call__")
        arguments_list == IF callable THEN Append(popped, callee) ELSE popped
        closure == IF callable THEN TableGetItem(tables[callee.r], StrV("__call__"))
                   ELSE callee
        cs1 == IF live THEN SetStack(cs, stack1) ELSE cs
    IN IF ~IsClosureData(closure)
       THEN Machine(cs1, tables, closures, current_module_id, pc, "error", "TYPE_ERROR")
       ELSE
         LET data == closures[closure.c]
         IN IF Len(arguments_list) # data.function.params_num
            THEN Machine(cs1, tables, closures, current_module_id, pc, "error", "CALL_ERROR")
            ELSE IF data.function.func # ""
            THEN LET r == HostApply(data.function.func, Reverse(arguments_list),
                                    closure.c, tables, closures)
                 IN IF ~r.ok
                    THEN Machine(cs1, tables, closures, current_module_id, pc, "error",
                                 "EXTEND_FUNCTION_ERROR")
                    ELSE Machine(IF live THEN SetStack(cs, Append(stack1, r.value)) ELSE cs,
                                 r.tables, r.closures, current_module_id, return_pc,
                                 "running", "")
            ELSE Machine(
                   Append(cs1, StackFrame(Len(closures) + 1, arguments_list,
                                          <<current_module_id, return_pc>>, no_return)),
                   Append(tables, <<>>),
                   Append(closures, ClosureData(data.function, data.module_id,
                                                data.base_closure, data.global_closure,
                                                Len(tables) + 1)),
                   data.module_id, data.function.address, "running", "")

(***************************************************************************)
(* LVM.run: one action per branch of the instruction loop.                 *)
(***************************************************************************)
\* the loop head fetched an instruction with this opcode
Fetch(op) == Running /\ CanFetch /\ current_code.op = op

\* run raises: an LVMError with this ErrorCode, or this Python exception
Raised(cs, kind) ==
  Commit(Machine(cs, tables, closures, current_module_id, pc, "error", kind))

\* the instruction ends by falling to `self.pc += 1`
Advance(cs, tb, cl) ==
  Commit(Machine(cs, tb, cl, current_module_id, pc + 1, "running", ""))

\* the instruction ends by `self.pc = target; continue`
JumpTo(cs, target) ==
  Commit(Machine(cs, tables, closures, current_module_id, target, "running", ""))

Push(value) == SetStack(call_stack, Append(current_operate_stack, value))

Const(index) == current_code_program.const_list[index + 1]
Name(index) == StrV(current_code_program.name_list[index + 1])

\* the walk along base_closure of LOAD_NAME: the first non-Null slot from
\* closure c outwards, Null when there is none
RECURSIVE BaseLookup(_, _)
BaseLookup(c, name) ==
  IF c = 0 THEN Null
  ELSE LET target == TableGetItem(Variables(tables, closures, c), name)
       IN IF ~IsNullData(target) THEN target
          ELSE BaseLookup(closures[c].base_closure, name)

\* the walk along base_closure of STORE: the first closure from c outwards
\* whose slot is not Null, 0 when there is none
RECURSIVE BaseOwner(_, _)
BaseOwner(c, name) ==
  IF c = 0 THEN 0
  ELSE IF ~IsNullData(TableGetItem(Variables(tables, closures, c), name)) THEN c
       ELSE BaseOwner(closures[c].base_closure, name)

\* the slot of name in the current frame's own variables
LocalSlot(name) == TableGetItem(Variables(tables, closures, current_closure), name)

\* a LOAD_NAME lookup that takes a slot holding the global sentinel for an
\* unbound one
ResolveNameUnmarked(name) ==
  LET glob == closures[current_closure].global_closure
      t0 == LocalSlot(name)
      t1 == IF IsGlobalReference(t0) THEN Null ELSE t0
      t2 == IF IsNullData(t1)
            THEN BaseLookup(closures[current_closure].base_closure, name) ELSE t1
      t3 == IF IsNullData(t2) /\ glob # 0
            THEN TableGetItem(Variables(tables, closures, glob), name) ELSE t2
  IN IF IsNullData(t3) THEN TableGetItem(tables[BuiltinNamespace], name) ELSE t3

\* the value LOAD_NAME pushes for name in the current frame
\* (the frame's global_closure is not None)
ResolveName(name) ==
  LET glob == closures[current_closure].global_closure
      t0 == LocalSlot(name)
      t1 == IF IsGlobalReference(t0)
            THEN TableGetItem(Variables(tables, closures, glob), name) ELSE t0
      t2 == IF IsNullData(t1)
            THEN BaseLookup(closures[current_closure].base_closure, name) ELSE t1
      t3 == IF IsNullData(t2) /\ glob # 0
            THEN TableGetItem(Variables(tables, closures, glob), name) ELSE t2
  IN IF IsNullData(t3) THEN TableGetItem(tables[BuiltinNamespace], name) ELSE t3

LoadConst ==
  /\ Fetch("LOAD_CONST")
  /\ LET value == Const(current_code.arg)
     IN IF value.t = "function"
        THEN Advance(Push(ClosureV(Len(closures) + 1)), tables,
                     Append(closures,
                            ClosureData(value, module_id,
                                        IF value.is_closure THEN current_closure ELSE 0,
                                        GlobalClosure, 0)))
        ELSE Advance(Push(value), tables, closures)

LoadName ==
  /\ Fetch("LOAD_NAME")
  /\ LET name == Name(current_code.arg)
     IN IF IsGlobalReference(LocalSlot(name))
             /\ closures[current_closure].global_closure = 0
        THEN Raised(call_stack, "AttributeError")
        ELSE Advance(Push(ResolveName(name)), tables, closures)

\* a STORE that never writes through to an enclosing activation
StoreOwnerLocal(name) ==
  IF IsGlobalReference(LocalSlot(name))
  THEN closures[current_closure].global_closure
  ELSE current_closure

\* the closure whose variables STORE writes for name
StoreOwner(name) ==
  IF IsGlobalReference(LocalSlot(name))
  THEN closures[current_closure].global_closure
  ELSE LET owner == BaseOwner(closures[current_closure].base_closure, name)
       IN IF owner # 0 THEN owner ELSE current_closure

Store ==
  /\ Fetch("STORE")
  /\ LET name == Name(current_code.arg)
         temp == closures[StoreOwner(name)].variables
     IN IF StoreOwner(name) = 0 THEN Raised(call_stack, "AttributeError")
        ELSE IF Len(current_operate_stack) = 0 THEN Raised(call_stack, "IndexError")
        ELSE Advance(SetStack(call_stack, Drop(current_operate_stack, 1)),
                     [tables EXCEPT ![temp] =
                        IF IsNullData(Top(current_operate_stack))
                        THEN DictPop(@, name)
                        ELSE TableSetItem(@, name, Top(current_operate_stack))],
                     closures)

Pop ==
  /\ Fetch("POP")
  /\ IF Len(current_operate_stack) = 0 THEN Raised(call_stack, "IndexError")
     ELSE Advance(SetStack(call_stack, Drop(current_operate_stack, 1)), tables, closures)

Dup ==
  /\ Fetch("DUP")
  /\ IF Len(current_operate_stack) = 0 THEN Raised(call_stack, "IndexError")
     ELSE Advance(Push(Top(current_operate_stack)), tables, closures)

\* current_operate_stack += current_operate_stack[-2:]
DupTwo ==
  /\ Fetch("DUP_TWO")
  /\ LET stack == current_operate_stack
     IN Advance(SetStack(call_stack,
                         stack \o SubSeq(stack, IF Len(stack) < 2 THEN 1 ELSE Len(stack) - 1,
                                         Len(stack))),
                tables, closures)

RotTwo ==
  /\ Fetch("ROT_TWO")
  /\ LET stack == current_operate_stack
     IN IF Len(stack) < 2 THEN Raised(call_stack, "IndexError")
        ELSE Advance(SetStack(call_stack,
                              Drop(stack, 2) \o <<Peek(stack, 1), Peek(stack, 2)>>),
                     tables, closures)

Global ==
  /\ Fetch("GLOBAL")
  /\ Advance(call_stack,
             [tables EXCEPT ![closures[current_closure].variables] =
                TableSetItem(@, Name(current_code.arg), GlobalReference)],
             closures)

\* the names that occur as segments of import paths
ImportSegments ==
  {"table", "keys", "values", "raw_len", "raw_get", "raw_set", "nolib", "a", "b", "v"}

\* path.split('.')
SplitPath(path) ==
  CHOOSE temp \in UNION {[1..n -> ImportSegments] : n \in 1..2} : JoinPath(temp) = path

\* for i in temp[1:]: value = value[i], raising when it becomes Null
RECURSIVE ImportWalk(_, _)
ImportWalk(value, rest) ==
  IF rest = <<>> THEN [ok |-> TRUE, value |-> value, error |-> ""]
  ELSE IF ~IsTableData(value) THEN [ok |-> FALSE, value |-> Null, error |-> "TypeError"]
  ELSE LET item == TableGetItem(tables[value.r], StrV(rest[1]))
       IN IF IsNullData(item)
          \* ErrorCode has no member IMPORT_ERROR
          THEN [ok |-> FALSE, value |-> Null, error |-> "AttributeError"]
          ELSE ImportWalk(item, Tail(rest))

\* temp[0] in self.package_paths.keys()
HasPackage(name) == \E n \in 1..Len(package_paths) : package_paths[n].name = name

\* _get_code_program(self.package_paths[name])
PackageCode(name) ==
  package_paths[CHOOSE n \in 1..Len(package_paths) : package_paths[n].name = name]
    .code_program

\* IMPORT of a built-in library, or of a package file: the program of the
\* file is appended to packages and a new LVM is constructed on it with
\* module_id self.module_id + 1 (LVM.__init__: its own builtin_namespace and
\* global frame); its run takes over until it returns (Return)
Import ==
  /\ Fetch("IMPORT")
  /\ LET temp == SplitPath(Const(current_code.arg).s)
         code_program == PackageCode(temp[1])
         closure == Len(closures) + 1
     IN IF HasKey(lib_table, StrV(temp[1]))
        THEN LET r == ImportWalk(TableGetItem(lib_table, StrV(temp[1])), Tail(temp))
             IN IF r.ok THEN Advance(Push(r.value), tables, closures)
                ELSE Raised(call_stack, r.error)
        ELSE IF ~HasPackage(temp[1]) THEN Raised(call_stack, "AttributeError")
        ELSE IF code_program.error # "" THEN Raised(call_stack, code_program.error)
        ELSE /\ packages' = Append(packages, code_program)
             /\ suspended' = Append(suspended,
                                    [lvm |-> lvm, call_stack |-> call_stack,
                                     current_module_id |-> current_module_id,
                                     pc |-> pc])
             /\ lvm' = [module_id |-> lvm.module_id + 1,
                         global_stack_frame |-> closure,
                         builtin_namespace |-> Len(tables) + 1]
             /\ tables' = tables
                            \o <<(<<Entry(StrV("type"), ClosureV(closure + 1)),
                                    Entry(StrV("assert"), ClosureV(closure + 2))>>),
                                 (<<>>)>>
             /\ closures' = closures
                              \o <<ClosureData(NoFunction, lvm.module_id + 1, 0, 0,
                                               Len(tables) + 2),
                                   ClosureData(ExtendFunction("lucy_type", 1), 0, 0, 0, 0),
                                   ClosureData(ExtendFunction("lucy_assert", 1), 0, 0, 0, 0)>>
             /\ call_stack' = <<StackFrame(closure, <<>>, <<0, 0>>, FALSE)>>
             /\ current_module_id' = lvm.module_id + 1
             /\ pc' = 0
             /\ UNCHANGED <<input, package_paths, status, error, code_generator>>

\* a BUILD_TABLE that inserts the pairs as the first loop popped them, the
\* textually last pair first
RECURSIVE BuildTablePopOrder(_, _)
BuildTablePopOrder(items, table) ==
  IF items = <<>> THEN [ok |-> TRUE, table |-> table]
  ELSE IF ~IsHashable(items[Len(items) - 1]) THEN [ok |-> FALSE, table |-> table]
  ELSE BuildTablePopOrder(SubSeq(items, 1, Len(items) - 2),
                          TableSetItem(table, items[Len(items) - 1], items[Len(items)]))

\* the second loop of BUILD_TABLE over the pairs k1 v1 .. kk vk in textual
\* order; ok is FALSE when a key is not hashable
RECURSIVE BuildTable(_, _)
BuildTable(items, table) ==
  IF items = <<>> THEN [ok |-> TRUE, table |-> table]
  ELSE IF ~IsHashable(items[1]) THEN [ok |-> FALSE, table |-> table]
  ELSE BuildTable(SubSeq(items, 3, Len(items)), TableSetItem(table, items[1], items[2]))

BuildTableOp ==
  /\ Fetch("BUILD_TABLE")
  /\ LET stack == current_operate_stack
         count == current_code.arg
     IN IF Len(stack) < 2 * count THEN Raised(call_stack, "IndexError")
        ELSE LET r == BuildTable(SubSeq(stack, Len(stack) - 2 * count + 1, Len(stack)), <<>>)
                 cs == SetStack(call_stack, Drop(stack, 2 * count))
             IN IF ~r.ok THEN Raised(cs, "TYPE_ERROR")
                ELSE Advance(SetStack(call_stack,
                                      Append(Drop(stack, 2 * count),
                                             TableV(Len(tables) + 1))),
                             Append(tables, r.table), closures)

\* GET_ATTR and GET_ITEM
GetAttrItem ==
  /\ Running /\ CanFetch /\ current_code.op \in {"GET_ATTR", "GET_ITEM"}
  /\ LET table_key == IF current_code.op = "GET_ATTR" THEN "__getattr__"
                      ELSE "__getitem__"
         stack == current_operate_stack
         arg2 == Peek(stack, 1)
         arg1 == Peek(stack, 2)
         rest == Drop(stack, 2)
     IN IF Len(stack) < 2 THEN Raised(call_stack, "IndexError")
        ELSE IF ~IsTableData(arg1) \/ ~IsHashable(arg2)
        THEN Raised(SetStack(call_stack, rest), "TYPE_ERROR")
        ELSE IF HasMeta(tables, arg1, table_key)
        THEN Commit(code_call(call_stack,
                              rest \o <<TableGetItem(tables[arg1.r], StrV(table_key)),
                                        arg1, arg2>>,
                              TRUE, 2, pc + 1, TRUE, FALSE))
        ELSE Advance(SetStack(call_stack,
                              Append(rest, TableGetItem(tables[arg1.r], arg2))),
                     tables, closures)

\* SET_ATTR and SET_ITEM
SetAttrItem ==
  /\ Running /\ CanFetch /\ current_code.op \in {"SET_ATTR", "SET_ITEM"}
  /\ LET table_key == IF current_code.op = "SET_ATTR" THEN "__setattr__"
                      ELSE "__setitem__"
         stack == current_operate_stack
         arg3 == Peek(stack, 1)
         arg2 == Peek(stack, 2)
         arg1 == Peek(stack, 3)
         rest == Drop(stack, 2)
     IN IF Len(stack) < 3 THEN Raised(call_stack, "IndexError")
        ELSE IF ~IsTableData(arg1) \/ ~IsHashable(arg2)
        THEN Raised(SetStack(call_stack, rest), "TYPE_ERROR")
        ELSE IF HasMeta(tables, arg1, table_key)
        THEN Commit(code_call(call_stack,
                              rest \o <<TableGetItem(tables[arg1.r], StrV(table_key)),
                                        arg1, arg2, arg3>>,
                              TRUE, 3, pc + 1, TRUE, TRUE))
        ELSE Advance(SetStack(call_stack, rest),
                     [tables EXCEPT ![arg1.r] = TableSetItem(@, arg2, arg3)],
                     closures)
\* a FOR that leaves the Null of the exhausted iterator on the stack
ForKeepsNull ==
  /\ Fetch("FOR")
  /\ IF TopFrame.call_flag
     THEN LET cs == [call_stack EXCEPT ![Depth].call_flag = FALSE]
          IN IF Len(current_operate_stack) = 0 THEN Raised(cs, "IndexError")
             ELSE IF IsNullData(Top(current_operate_stack))
             THEN JumpTo(cs, current_code.arg)
             ELSE Advance(cs, tables, closures)
     ELSE Commit(code_call([call_stack EXCEPT ![Depth].call_flag = TRUE],
                           current_operate_stack, TRUE, 0, pc, FALSE, FALSE))

For ==
  /\ Fetch("FOR")
  /\ IF TopFrame.call_flag
     THEN LET cs == [call_stack EXCEPT ![Depth].call_flag = FALSE]
          IN IF Len(current_operate_stack) = 0 THEN Raised(cs, "IndexError")
             ELSE IF IsNullData(Top(current_operate_stack))
             THEN JumpTo(SetStack(cs, Drop(current_operate_stack, 1)), current_code.arg)
             ELSE Advance(cs, tables, closures)
     ELSE Commit(code_call([call_stack EXCEPT ![Depth].call_flag = TRUE],
                           current_operate_stack, TRUE, 0, pc, FALSE, FALSE))

BINARY_OPCODES == {"ADD", "SUB", "MUL", "DIV", "MOD"}

\* BINARY_OPCODES[opcode][0] and COMPARE_OPERATORS[operator_name]
MetaKey(op) ==
  CASE op = "ADD" -> "__add__"
    [] op = "SUB" -> "__sub__"
    [] op = "MUL" -> "__mul__"
    [] op = "DIV" -> "__div__"
    [] op = "MOD" -> "__mod__"
    [] op = "<" -> "__lt__"
    [] op = "<=" -> "__le__"
    [] op = "==" -> "__eq__"
    [] op = "!=" -> "__ne__"
    [] op = ">" -> "__gt__"
    [] op = ">=" -> "__ge__"

\* a number_only_operator that lets an Int meet a Float
number_only_operator_coercing(arg1, arg2) ==
  /\ IsIntegerData(arg1) \/ IsFloatData(arg1)
  /\ IsIntegerData(arg2) \/ IsFloatData(arg2)

\* number_only_operator does not raise
number_only_operator(arg1, arg2) ==
  \/ IsIntegerData(arg1) /\ IsIntegerData(arg2)
  \/ IsFloatData(arg1) /\ IsFloatData(arg2)

\* Python's // and % on integers (the divisor is not 0)
FloorDiv(x, y) == IF y > 0 THEN x \div y ELSE (0 - x) \div (0 - y)
PyMod(x, y) == x - y * FloorDiv(x, y)

Abs(x) == IF x < 0 THEN 0 - x ELSE x

\* the primitive arithmetic on two operands that passed the type checks;
\* ok is FALSE when Python raises ZeroDivisionError.  Floats are the doubles
\* f.0, so a float quotient has to be integral to be a value of the model.
Arithmetic(op, arg1, arg2) ==
  LET x == NumVal(arg1)
      y == NumVal(arg2)
      make(n) == IF IsFloatData(arg1) THEN FloatV(n) ELSE IntV(n)
  IN CASE op = "ADD" /\ IsStringData(arg1) ->
            [ok |-> TRUE, value |-> StrV(arg1.s \o arg2.s)]
       [] op = "ADD" /\ ~IsStringData(arg1) -> [ok |-> TRUE, value |-> make(x + y)]
       [] op = "SUB" -> [ok |-> TRUE, value |-> make(x - y)]
       [] op = "MUL" -> [ok |-> TRUE, value |-> make(x * y)]
       [] op = "DIV" ->
            IF y = 0 THEN [ok |-> FALSE, value |-> Null]
            ELSE IF IsFloatData(arg1)
            THEN [ok |-> TRUE,
                  value |-> FloatV(CHOOSE q \in (0 - Abs(x))..Abs(x) : q * y = x)]
            ELSE [ok |-> TRUE, value |-> IntV(FloorDiv(x, y))]
       [] op = "MOD" ->
            IF y = 0 THEN [ok |-> FALSE, value |-> Null]
            ELSE [ok |-> TRUE, value |-> make(PyMod(x, y))]

\* a binary operator that hands its operands to the metamethod as
\* (right, left)
BinaryOpSwapped ==
  /\ Running /\ CanFetch /\ current_code.op \in BINARY_OPCODES
  /\ LET op == current_code.op
         stack == current_operate_stack
         arg2 == Peek(stack, 1)
         arg1 == Peek(stack, 2)
         rest == Drop(stack, 2)
     IN IF TopFrame.call_flag
        THEN Advance([call_stack EXCEPT ![Depth].call_flag = FALSE], tables, closures)
        ELSE IF Len(stack) < 2 THEN Raised(call_stack, "IndexError")
        ELSE IF HasMeta(tables, arg1, MetaKey(op))
        THEN Commit(code_call([call_stack EXCEPT ![Depth].call_flag = TRUE],
                              rest \o <<TableGetItem(tables[arg1.r], StrV(MetaKey(op))),
                                        arg2, arg1>>,
                              TRUE, 2, pc, TRUE, FALSE))
        ELSE IF IF op = "ADD" /\ IsStringData(arg1) THEN ~IsStringData(arg2)
                ELSE ~number_only_operator(arg1, arg2)
        THEN Raised(SetStack(call_stack, rest), "TYPE_ERROR")
        ELSE LET r == Arithmetic(op, arg1, arg2)
             IN IF ~r.ok THEN Raised(SetStack(call_stack, rest), "ZeroDivisionError")
                ELSE Advance(SetStack(call_stack, Append(rest, r.value)), tables, closures)

\* ADD, SUB, MUL, DIV and MOD
BinaryOp ==
  /\ Running /\ CanFetch /\ current_code.op \in BINARY_OPCODES
  /\ LET op == current_code.op
         stack == current_operate_stack
         arg2 == Peek(stack, 1)
         arg1 == Peek(stack, 2)
         rest == Drop(stack, 2)
     IN IF TopFrame.call_flag
        THEN Advance([call_stack EXCEPT ![Depth].call_flag = FALSE], tables, closures)
        ELSE IF Len(stack) < 2 THEN Raised(call_stack, "IndexError")
        ELSE IF HasMeta(tables, arg1, MetaKey(op))
        THEN Commit(code_call([call_stack EXCEPT ![Depth].call_flag = TRUE],
                              rest \o <<TableGetItem(tables[arg1.r], StrV(MetaKey(op))),
                                        arg1, arg2>>,
                              TRUE, 2, pc, TRUE, FALSE))
        ELSE IF IF op = "ADD" /\ IsStringData(arg1) THEN ~IsStringData(arg2)
                ELSE ~number_only_operator(arg1, arg2)
        THEN Raised(SetStack(call_stack, rest), "TYPE_ERROR")
        ELSE LET r == Arithmetic(op, arg1, arg2)
             IN IF ~r.ok THEN Raised(SetStack(call_stack, rest), "ZeroDivisionError")
                ELSE Advance(SetStack(call_stack, Append(rest, r.value)), tables, closures)

\* Python's arg1 == arg2.  Numbers compare by value across bool, int and
\* float, strings and None by value, closures by identity, dicts by their
\* items; fuel bounds the nesting of dicts followed ("E": RecursionError).
RECURSIVE PyEquals(_, _, _)
PyEquals(a, b, fuel) ==
  IF IsNumeric(a) /\ IsNumeric(b) THEN (IF NumVal(a) = NumVal(b) THEN "T" ELSE "F")
  ELSE IF a.t # b.t THEN "F"
  ELSE IF ~IsTableData(a) THEN (IF a = b THEN "T" ELSE "F")
  ELSE IF a.r = b.r THEN "T"
  ELSE IF fuel = 0 THEN "E"
  ELSE LET ta == tables[a.r]
           tb == tables[b.r]
           item(n) ==
             IF ~HasKey(tb, ta[n].k) THEN "F"
             ELSE LET other == TableGetItem(tb, ta[n].k)
                  IN IF other = ta[n].v THEN "T" ELSE PyEquals(ta[n].v, other, fuel - 1)
       IN IF Len(ta) # Len(tb) THEN "F"
          ELSE IF \E n \in 1..Len(ta) :
                    /\ item(n) # "T"
                    /\ \A m \in 1..(n - 1) : item(m) = "T"
          THEN item(CHOOSE n \in 1..Len(ta) :
                      /\ item(n) # "T"
                      /\ \A m \in 1..(n - 1) : item(m) = "T")
          ELSE "T"

\* the nesting of dicts PyEquals follows
EqualsFuel == 3

\* the primitive comparison on operands that passed the type checks
Comparison(operator_name, arg1, arg2) ==
  CASE operator_name = "==" -> PyEquals(arg1, arg2, EqualsFuel)
    [] operator_name = "!=" ->
         LET e == PyEquals(arg1, arg2, EqualsFuel)
         IN IF e = "E" THEN "E" ELSE IF e = "T" THEN "F" ELSE "T"
    [] operator_name = "<" -> IF NumVal(arg1) < NumVal(arg2) THEN "T" ELSE "F"
    [] operator_name = "<=" -> IF NumVal(arg1) <= NumVal(arg2) THEN "T" ELSE "F"
    [] operator_name = ">" -> IF NumVal(arg1) > NumVal(arg2) THEN "T" ELSE "F"
    [] operator_name = ">=" -> IF NumVal(arg1) >= NumVal(arg2) THEN "T" ELSE "F"

CompareOp ==
  /\ Fetch("COMPARE_OP")
  /\ LET operator_name == cmp_op[current_code.arg + 1]
         stack == current_operate_stack
         arg2 == Peek(stack, 1)
         arg1 == Peek(stack, 2)
         rest == Drop(stack, 2)
     IN IF TopFrame.call_flag
        THEN Advance([call_stack EXCEPT ![Depth].call_flag = FALSE], tables, closures)
        ELSE IF Len(stack) < 2 THEN Raised(call_stack, "IndexError")
        ELSE IF HasMeta(tables, arg1, MetaKey(operator_name))
        THEN Commit(code_call([call_stack EXCEPT ![Depth].call_flag = TRUE],
                              rest \o <<TableGetItem(tables[arg1.r],
                                                     StrV(MetaKey(operator_name))),
                                        arg1, arg2>>,
                              TRUE, 2, pc, TRUE, FALSE))
        ELSE IF operator_name \notin {"==", "!="} /\ ~number_only_operator(arg1, arg2)
        THEN Raised(SetStack(call_stack, rest), "TYPE_ERROR")
        ELSE LET r == Comparison(operator_name, arg1, arg2)
             IN IF r = "E" THEN Raised(SetStack(call_stack, rest), "RecursionError")
                ELSE Advance(SetStack(call_stack, Append(rest, BoolV(r = "T"))),
                             tables, closures)

Jump ==
  /\ Fetch("JUMP")
  /\ JumpTo(call_stack, current_code.arg)

JumpIfFalse ==
  /\ Fetch("JUMP_IF_FALSE")
  /\ LET stack == current_operate_stack
         cs == SetStack(call_stack, Drop(stack, 1))
     IN IF Len(stack) = 0 THEN Raised(call_stack, "IndexError")
        ELSE IF ~IsBooleanData(Top(stack)) THEN Raised(cs, "TYPE_ERROR")
        ELSE IF Top(stack) = BoolV(FALSE) THEN JumpTo(cs, current_code.arg)
        ELSE Advance(cs, tables, closures)

\* NEG: a table with a closure under __neg__ is handed to it, NEG being the
\* return address, and what the call returned stays in place of the
\* operand; any other operand must pass check_type(arg1, (IntegerData,
\* FloatData)), which a bool does, and -arg1 is an int for a bool
Neg ==
  /\ Fetch("NEG")
  /\ LET stack == current_operate_stack
         arg1 == Top(stack)
         rest == Drop(stack, 1)
     IN IF TopFrame.call_flag
        THEN Advance([call_stack EXCEPT ![Depth].call_flag = FALSE], tables, closures)
        ELSE IF Len(stack) = 0 THEN Raised(call_stack, "IndexError")
        ELSE IF HasMeta(tables, arg1, "__neg__")
        THEN Commit(code_call([call_stack EXCEPT ![Depth].call_flag = TRUE],
                              rest \o <<TableGetItem(tables[arg1.r], StrV("__neg__")),
                                        arg1>>,
                              TRUE, 1, pc, TRUE, FALSE))
        ELSE IF ~(IsIntegerData(arg1) \/ IsFloatData(arg1))
        THEN Raised(SetStack(call_stack, rest), "TYPE_ERROR")
        ELSE Advance(SetStack(call_stack,
                              Append(rest, IF IsFloatData(arg1) THEN FloatV(0 - arg1.f)
                                           ELSE IntV(0 - NumVal(arg1)))),
                     tables, closures)

\* a NOT that takes Null and the numbers as tests (Null and 0 for false)
NotTruthy ==
  /\ Fetch("NOT")
  /\ LET stack == current_operate_stack
         arg1 == Top(stack)
         cs == SetStack(call_stack, Drop(stack, 1))
     IN IF Len(stack) = 0 THEN Raised(call_stack, "IndexError")
        ELSE IF ~(IsNullData(arg1) \/ IsIntegerData(arg1))
        THEN Raised(cs, "TYPE_ERROR")
        ELSE Advance(SetStack(call_stack,
                              Append(Drop(stack, 1),
                                     BoolV(\/ IsNullData(arg1)
                                           \/ IsBooleanData(arg1) /\ ~arg1.b
                                           \/ ~IsBooleanData(arg1) /\ arg1.i = 0))),
                     tables, closures)

Not ==
  /\ Fetch("NOT")
  /\ LET stack == current_operate_stack
         arg1 == Top(stack)
         cs == SetStack(call_stack, Drop(stack, 1))
     IN IF Len(stack) = 0 THEN Raised(call_stack, "IndexError")
        ELSE IF ~IsBooleanData(arg1) THEN Raised(cs, "TYPE_ERROR")
        ELSE Advance(SetStack(call_stack, Append(Drop(stack, 1), BoolV(~arg1.b))),
                     tables, closures)

JumpIfTrue ==
  /\ Fetch("JUMP_IF_TRUE")
  /\ LET stack == current_operate_stack
         cs == SetStack(call_stack, Drop(stack, 1))
     IN IF Len(stack) = 0 THEN Raised(call_stack, "IndexError")
        ELSE IF ~IsBooleanData(Top(stack)) THEN Raised(cs, "TYPE_ERROR")
        ELSE IF Top(stack) = BoolV(TRUE) THEN JumpTo(cs, current_code.arg)
        ELSE Advance(cs, tables, closures)

\* JUMP_IF_TRUE_OR_POP (jump_on = TRUE) and JUMP_IF_FALSE_OR_POP: the
\* operand is read, not popped, before check_type
jump_or_pop(jump_on) ==
  LET stack == current_operate_stack
  IN IF Len(stack) = 0 THEN Raised(call_stack, "IndexError")
     ELSE IF ~IsBooleanData(Top(stack)) THEN Raised(call_stack, "TYPE_ERROR")
     ELSE IF Top(stack) = BoolV(jump_on) THEN JumpTo(call_stack, current_code.arg)
     ELSE Advance(SetStack(call_stack, Drop(stack, 1)), tables, closures)

JumpIfTrueOrPop ==
  /\ Fetch("JUMP_IF_TRUE_OR_POP")
  /\ jump_or_pop(TRUE)

JumpIfFalseOrPop ==
  /\ Fetch("JUMP_IF_FALSE_OR_POP")
  /\ jump_or_pop(FALSE)
\* a CALL whose activation takes over the variables map of an earlier
\* activation of the same function
CallSharesActivation ==
  /\ Fetch("CALL")
  /\ LET m == code_call(call_stack, current_operate_stack, TRUE, current_code.arg,
                        pc + 1, TRUE, FALSE)
         new == Len(closures) + 1
         earlier == {c \in 1..Len(closures) :
                       /\ closures[c].variables # 0
                       /\ Len(m.closures) = new
                       /\ closures[c].function = m.closures[new].function}
     IN IF Len(m.call_stack) > Depth /\ earlier # {}
        THEN Commit([m EXCEPT !.closures[new].variables =
                                 closures[CHOOSE c \in earlier : TRUE].variables])
        ELSE Commit(m)

\* a CALL that gives Null for a callee that is not callable
CallUnchecked ==
  /\ Fetch("CALL")
  /\ LET m == code_call(call_stack, current_operate_stack, TRUE, current_code.arg,
                        pc + 1, TRUE, FALSE)
     IN IF m.error = "TYPE_ERROR"
        THEN Advance(SetStack(call_stack,
                              Append(Drop(current_operate_stack,
                                          current_code.arg + 1), Null)),
                     tables, closures)
        ELSE Commit(m)

\* a CALL that leaves the callee on the caller's stack
CallKeepsCallee ==
  /\ Fetch("CALL")
  /\ Commit(code_call(call_stack, current_operate_stack, TRUE, current_code.arg,
                      pc + 1, FALSE, FALSE))

Call ==
  /\ Fetch("CALL")
  /\ Commit(code_call(call_stack, current_operate_stack, TRUE, current_code.arg,
                      pc + 1, TRUE, FALSE))

\* GOTO pops the frame, then code_call works on the operand stack of the
\* popped frame, which self.current_operate_stack still names
Goto ==
  /\ Fetch("GOTO")
  /\ Commit(code_call(Front(call_stack), current_operate_stack, FALSE,
                      current_code.arg, pc + 1, TRUE, FALSE))
\* run leaves its loop with the call stack empty: the run of the first LVM
\* is over; the run of an LVM constructed by IMPORT returns into that IMPORT,
\* which takes lvm.export_package(), walks the rest of the path and pushes
RunReturns(address) ==
  IF suspended = <<>>
  THEN Commit(Machine(<<>>, tables, closures, address[1], address[2], "halted", ""))
  ELSE LET parent == Top(suspended)
           program == packages[parent.current_module_id + 1]
           path == program.const_list[program.code_list[parent.pc + 1].arg + 1]
           r == ImportWalk(TableV(GlobalVariables), Tail(SplitPath(path.s)))
       IN /\ lvm' = parent.lvm
          /\ suspended' = Front(suspended)
          /\ current_module_id' = parent.current_module_id
          /\ call_stack' = IF r.ok
                           THEN SetStack(parent.call_stack,
                                         Append(Top(parent.call_stack).operate_stack,
                                                r.value))
                           ELSE parent.call_stack
          /\ pc' = IF r.ok THEN parent.pc + 1 ELSE parent.pc
          /\ status' = IF r.ok THEN "running" ELSE "error"
          /\ error' = r.error
          /\ UNCHANGED <<input, packages, tables, closures, package_paths,
                         code_generator>>

\* a RETURN that pushes the return value whatever the frame's no_return
ReturnAlwaysPushes ==
  /\ Fetch("RETURN")
  /\ LET stack == current_operate_stack
         return_value == Top(stack)
         below == Front(SetStack(call_stack, Drop(stack, 1)))
         address == current_return_address
     IN IF Len(stack) = 0 THEN Raised(call_stack, "IndexError")
        ELSE IF Len(below) = 0 THEN RunReturns(address)
        ELSE Commit(Machine(SetStack(below, Append(Top(below).operate_stack,
                                                   return_value)),
                            tables, closures, address[1], address[2], "running", ""))

Return ==
  /\ Fetch("RETURN")
  /\ LET stack == current_operate_stack
         return_value == Top(stack)
         temp == TopFrame
         below == Front(SetStack(call_stack, Drop(stack, 1)))
         address == current_return_address
     IN IF Len(stack) = 0 THEN Raised(call_stack, "IndexError")
        ELSE IF Len(below) = 0 THEN RunReturns(address)
        ELSE Commit(Machine(IF temp.no_return THEN below
                            ELSE SetStack(below, Append(Top(below).operate_stack,
                                                        return_value)),
                            tables, closures, address[1], address[2], "running", ""))

\* the loop head raises IndexError: code_list[self.pc] or call_stack[-1]
\* does not exist
FetchError ==
  /\ Running /\ ~CanFetch
  /\ Raised(call_stack, "IndexError")

(***************************************************************************)
(* The programs the VM runs: the ASTs the parser gives for the sources in  *)
(* the comments.                                                           *)
(***************************************************************************)
\* the goto chains make 1 .. MaxChain tail calls
MaxChain == 3

\* the names of the parameters p1, p2, .. of the argument-passing programs
ParamNames == <<"p", "q", "s", "u">>

\* the values passed as arguments
ArgValues == {Null, IntV(1), IntV(2)}

\* the operators of the metamethod programs
Operators == {"+", "-", "*", "/", "%", "<", "<=", "==", "!=", ">", ">="}

\* the reserved key that serves the operator op
OperatorKey(op) ==
  IF \E n \in 1..Len(cmp_op) : cmp_op[n] = op THEN MetaKey(op)
  ELSE MetaKey(binary_operator_to_opcodes(op))

\*   base = {"greet": 7};
\*   child = {"__base__": base};
\*   grand = {"__base__": child, "own": 1};
\*   x = child.greet;
\*   y = child["greet"];
\*   z = grand.greet;
\*   w = grand.own;
proto ==
  BlockStatement(<<AssignmentStatement(Identifier("base"), "=",
    TableExpression(<<Property(Literal(StrV("greet")), Literal(IntV(7)))>>)),
    AssignmentStatement(Identifier("child"), "=",
    TableExpression(<<Property(Literal(StrV("__base__")),
    Identifier("base"))>>)), AssignmentStatement(Identifier("grand"), "=",
    TableExpression(<<Property(Literal(StrV("__base__")),
    Identifier("child")), Property(Literal(StrV("own")),
    Literal(IntV(1)))>>)), AssignmentStatement(Identifier("x"), "=",
    MemberExpression(Identifier("child"), Identifier("greet"), ".")),
    AssignmentStatement(Identifier("y"), "=",
    MemberExpression(Identifier("child"), Literal(StrV("greet")), "[]")),
    AssignmentStatement(Identifier("z"), "=",
    MemberExpression(Identifier("grand"), Identifier("greet"), ".")),
    AssignmentStatement(Identifier("w"), "=",
    MemberExpression(Identifier("grand"), Identifier("own"), "."))>>)

\*   mk = func() { n = 0; return || { n = n + 1; return n; }; };
\*   c = mk();
\*   a = c();
\*   b = c();
counter ==
  BlockStatement(<<AssignmentStatement(Identifier("mk"), "=",
    FunctionExpression(<<>>,
    BlockStatement(<<AssignmentStatement(Identifier("n"), "=",
    Literal(IntV(0))), ReturnStatement(FunctionExpression(<<>>,
    BlockStatement(<<AssignmentStatement(Identifier("n"), "=",
    BinaryExpression(Identifier("n"), "+", Literal(IntV(1)))),
    ReturnStatement(Identifier("n"))>>), TRUE))>>), FALSE)),
    AssignmentStatement(Identifier("c"), "=",
    CallExpression(Identifier("mk"), <<>>)),
    AssignmentStatement(Identifier("a"), "=", CallExpression(Identifier("c"),
    <<>>)), AssignmentStatement(Identifier("b"), "=",
    CallExpression(Identifier("c"), <<>>))>>)

\*   n = 1;
\*   mk = func() { n = 10; return || { global n; n = 2; return n; }; };
\*   c = mk();
\*   r = c();
store_global ==
  BlockStatement(<<AssignmentStatement(Identifier("n"), "=",
    Literal(IntV(1))), AssignmentStatement(Identifier("mk"), "=",
    FunctionExpression(<<>>,
    BlockStatement(<<AssignmentStatement(Identifier("n"), "=",
    Literal(IntV(10))), ReturnStatement(FunctionExpression(<<>>,
    BlockStatement(<<GlobalStatement(<<Identifier("n")>>),
    AssignmentStatement(Identifier("n"), "=", Literal(IntV(2))),
    ReturnStatement(Identifier("n"))>>), TRUE))>>), FALSE)),
    AssignmentStatement(Identifier("c"), "=",
    CallExpression(Identifier("mk"), <<>>)),
    AssignmentStatement(Identifier("r"), "=", CallExpression(Identifier("c"),
    <<>>))>>)

\*   mk = func() { n = 1; return || { n = null; n = 3; return n; }; };
\*   c = mk();
\*   r = c();
store_null ==
  BlockStatement(<<AssignmentStatement(Identifier("mk"), "=",
    FunctionExpression(<<>>,
    BlockStatement(<<AssignmentStatement(Identifier("n"), "=",
    Literal(IntV(1))), ReturnStatement(FunctionExpression(<<>>,
    BlockStatement(<<AssignmentStatement(Identifier("n"), "=",
    Literal(Null)), AssignmentStatement(Identifier("n"), "=",
    Literal(IntV(3))), ReturnStatement(Identifier("n"))>>), TRUE))>>),
    FALSE)), AssignmentStatement(Identifier("c"), "=",
    CallExpression(Identifier("mk"), <<>>)),
    AssignmentStatement(Identifier("r"), "=", CallExpression(Identifier("c"),
    <<>>))>>)

\*   f = func() { n = 1; g = func() { n = 2; return n; }; s = g(); return n; };
\*   r = f();
store_plain ==
  BlockStatement(<<AssignmentStatement(Identifier("f"), "=",
    FunctionExpression(<<>>,
    BlockStatement(<<AssignmentStatement(Identifier("n"), "=",
    Literal(IntV(1))), AssignmentStatement(Identifier("g"), "=",
    FunctionExpression(<<>>,
    BlockStatement(<<AssignmentStatement(Identifier("n"), "=",
    Literal(IntV(2))), ReturnStatement(Identifier("n"))>>), FALSE)),
    AssignmentStatement(Identifier("s"), "=", CallExpression(Identifier("g"),
    <<>>)), ReturnStatement(Identifier("n"))>>), FALSE)),
    AssignmentStatement(Identifier("r"), "=", CallExpression(Identifier("f"),
    <<>>))>>)

\*   n = 1;
\*   c = || { n = n + 1; m = 5; return m; };
\*   r = c();
store_top ==
  BlockStatement(<<AssignmentStatement(Identifier("n"), "=",
    Literal(IntV(1))), AssignmentStatement(Identifier("c"), "=",
    FunctionExpression(<<>>,
    BlockStatement(<<AssignmentStatement(Identifier("n"), "=",
    BinaryExpression(Identifier("n"), "+", Literal(IntV(1)))),
    AssignmentStatement(Identifier("m"), "=", Literal(IntV(5))),
    ReturnStatement(Identifier("m"))>>), TRUE)),
    AssignmentStatement(Identifier("r"), "=", CallExpression(Identifier("c"),
    <<>>))>>)

\*   f = func() { n = 1; mid = func() { return || { n = 2; return n; }; }; k = mid(); s = k(); return n; };
\*   r = f();
store_two ==
  BlockStatement(<<AssignmentStatement(Identifier("f"), "=",
    FunctionExpression(<<>>,
    BlockStatement(<<AssignmentStatement(Identifier("n"), "=",
    Literal(IntV(1))), AssignmentStatement(Identifier("mid"), "=",
    FunctionExpression(<<>>,
    BlockStatement(<<ReturnStatement(FunctionExpression(<<>>,
    BlockStatement(<<AssignmentStatement(Identifier("n"), "=",
    Literal(IntV(2))), ReturnStatement(Identifier("n"))>>), TRUE))>>),
    FALSE)), AssignmentStatement(Identifier("k"), "=",
    CallExpression(Identifier("mid"), <<>>)),
    AssignmentStatement(Identifier("s"), "=", CallExpression(Identifier("k"),
    <<>>)), ReturnStatement(Identifier("n"))>>), FALSE)),
    AssignmentStatement(Identifier("r"), "=", CallExpression(Identifier("f"),
    <<>>))>>)

\*   h = func() { global n; n = 5; return 0; };
\*   c = || { n = 1; h(); n = 2; return n; };
\*   r = c();
store_stale ==
  BlockStatement(<<AssignmentStatement(Identifier("h"), "=",
    FunctionExpression(<<>>,
    BlockStatement(<<GlobalStatement(<<Identifier("n")>>),
    AssignmentStatement(Identifier("n"), "=", Literal(IntV(5))),
    ReturnStatement(Literal(IntV(0)))>>), FALSE)),
    AssignmentStatement(Identifier("c"), "=", FunctionExpression(<<>>,
    BlockStatement(<<AssignmentStatement(Identifier("n"), "=",
    Literal(IntV(1))), CallExpression(Identifier("h"), <<>>),
    AssignmentStatement(Identifier("n"), "=", Literal(IntV(2))),
    ReturnStatement(Identifier("n"))>>), TRUE)),
    AssignmentStatement(Identifier("r"), "=", CallExpression(Identifier("c"),
    <<>>))>>)

\*   n = 1;
\*   mk = func() { global n; n = 7; return || { n = 2; return n; }; };
\*   c = mk();
\*   r = c();
\*   s = mk();
store_outer ==
  BlockStatement(<<AssignmentStatement(Identifier("n"), "=",
    Literal(IntV(1))), AssignmentStatement(Identifier("mk"), "=",
    FunctionExpression(<<>>,
    BlockStatement(<<GlobalStatement(<<Identifier("n")>>),
    AssignmentStatement(Identifier("n"), "=", Literal(IntV(7))),
    ReturnStatement(FunctionExpression(<<>>,
    BlockStatement(<<AssignmentStatement(Identifier("n"), "=",
    Literal(IntV(2))), ReturnStatement(Identifier("n"))>>), TRUE))>>),
    FALSE)), AssignmentStatement(Identifier("c"), "=",
    CallExpression(Identifier("mk"), <<>>)),
    AssignmentStatement(Identifier("r"), "=", CallExpression(Identifier("c"),
    <<>>)), AssignmentStatement(Identifier("s"), "=",
    CallExpression(Identifier("mk"), <<>>))>>)

\*   global n;
\*   n = 1;
\*   done = 1;
store_decl ==
  BlockStatement(<<GlobalStatement(<<Identifier("n")>>),
    AssignmentStatement(Identifier("n"), "=", Literal(IntV(1))),
    AssignmentStatement(Identifier("done"), "=", Literal(IntV(1)))>>)

\*   t = 0;
\*   count = 0;
\*   out = {};
\*   it = || { t = t + 1; if t > n { return null; } return t * 2; };
\*   for x in it { count = count + 1; out[count] = x; }
\*   done = 1;
for_lucy(n) ==
  BlockStatement(<<AssignmentStatement(Identifier("t"), "=",
    Literal(IntV(0))), AssignmentStatement(Identifier("count"), "=",
    Literal(IntV(0))), AssignmentStatement(Identifier("out"), "=",
    TableExpression(<<>>)), AssignmentStatement(Identifier("it"), "=",
    FunctionExpression(<<>>,
    BlockStatement(<<AssignmentStatement(Identifier("t"), "=",
    BinaryExpression(Identifier("t"), "+", Literal(IntV(1)))),
    IfStatement(BinaryExpression(Identifier("t"), ">", Literal(IntV(n))),
    BlockStatement(<<ReturnStatement(Literal(Null))>>), NoNode),
    ReturnStatement(BinaryExpression(Identifier("t"), "*",
    Literal(IntV(2))))>>), TRUE)), ForStatement(Identifier("x"),
    Identifier("it"),
    BlockStatement(<<AssignmentStatement(Identifier("count"), "=",
    BinaryExpression(Identifier("count"), "+", Literal(IntV(1)))),
    AssignmentStatement(MemberExpression(Identifier("out"),
    Identifier("count"), "[]"), "=", Identifier("x"))>>)),
    AssignmentStatement(Identifier("done"), "=", Literal(IntV(1)))>>)

\*   import table;
\*   count = 0;
\*   out = {};
\*   src = {1: 10, .., n: 10 * n};
\*   for x in table["keys"](src) { count = count + 1; out[count] = x; }
\*   done = 1;
for_host(n) ==
  BlockStatement(<<ImportStatement(<<"table">>, ""),
    AssignmentStatement(Identifier("count"), "=", Literal(IntV(0))),
    AssignmentStatement(Identifier("out"), "=", TableExpression(<<>>)),
    AssignmentStatement(Identifier("src"), "=",
    TableExpression([i \in 1..n |-> Property(Literal(IntV(i)),
    Literal(IntV(10 * i)))])), ForStatement(Identifier("x"),
    CallExpression(MemberExpression(Identifier("table"),
    Literal(StrV("keys")), "[]"), <<Identifier("src")>>),
    BlockStatement(<<AssignmentStatement(Identifier("count"), "=",
    BinaryExpression(Identifier("count"), "+", Literal(IntV(1)))),
    AssignmentStatement(MemberExpression(Identifier("out"),
    Identifier("count"), "[]"), "=", Identifier("x"))>>)),
    AssignmentStatement(Identifier("done"), "=", Literal(IntV(1)))>>)

\*   import table;
\*   run = func(src) { total = 0; for x in table["values"](src) { if x == 20 { continue; } total = total + x; if x == 30 { break; } } return total; };
\*   r = run({1: 10, 2: 20, 3: 30, 4: 40});
for_fn ==
  BlockStatement(<<ImportStatement(<<"table">>, ""),
    AssignmentStatement(Identifier("run"), "=",
    FunctionExpression(<<Identifier("src")>>,
    BlockStatement(<<AssignmentStatement(Identifier("total"), "=",
    Literal(IntV(0))), ForStatement(Identifier("x"),
    CallExpression(MemberExpression(Identifier("table"),
    Literal(StrV("values")), "[]"), <<Identifier("src")>>),
    BlockStatement(<<IfStatement(BinaryExpression(Identifier("x"), "==",
    Literal(IntV(20))), BlockStatement(<<ContinueStatement>>), NoNode),
    AssignmentStatement(Identifier("total"), "=",
    BinaryExpression(Identifier("total"), "+", Identifier("x"))),
    IfStatement(BinaryExpression(Identifier("x"), "==", Literal(IntV(30))),
    BlockStatement(<<BreakStatement>>), NoNode)>>)),
    ReturnStatement(Identifier("total"))>>), FALSE)),
    AssignmentStatement(Identifier("r"), "=",
    CallExpression(Identifier("run"),
    <<TableExpression(<<Property(Literal(IntV(1)), Literal(IntV(10))),
    Property(Literal(IntV(2)), Literal(IntV(20))), Property(Literal(IntV(3)),
    Literal(IntV(30))), Property(Literal(IntV(4)),
    Literal(IntV(40)))>>)>>))>>)

\*   g = func() { return 7; };
\*   f = func() { goto g(); };
\*   h = func() { r = f(); after = 1; return r; };
\*   z = h();
\*   done = 1;
goto_lucy ==
  BlockStatement(<<AssignmentStatement(Identifier("g"), "=",
    FunctionExpression(<<>>,
    BlockStatement(<<ReturnStatement(Literal(IntV(7)))>>), FALSE)),
    AssignmentStatement(Identifier("f"), "=", FunctionExpression(<<>>,
    BlockStatement(<<GotoStatement(CallExpression(Identifier("g"), <<>>))>>),
    FALSE)), AssignmentStatement(Identifier("h"), "=",
    FunctionExpression(<<>>,
    BlockStatement(<<AssignmentStatement(Identifier("r"), "=",
    CallExpression(Identifier("f"), <<>>)),
    AssignmentStatement(Identifier("after"), "=", Literal(IntV(1))),
    ReturnStatement(Identifier("r"))>>), FALSE)),
    AssignmentStatement(Identifier("z"), "=", CallExpression(Identifier("h"),
    <<>>)), AssignmentStatement(Identifier("done"), "=", Literal(IntV(1)))>>)

\*   import table;
\*   it = table["keys"]({5: 6});
\*   f = func() { goto it(); };
\*   h = func() { r = f(); after = 1; return r; };
\*   z = h();
\*   done = 1;
goto_host ==
  BlockStatement(<<ImportStatement(<<"table">>, ""),
    AssignmentStatement(Identifier("it"), "=",
    CallExpression(MemberExpression(Identifier("table"),
    Literal(StrV("keys")), "[]"),
    <<TableExpression(<<Property(Literal(IntV(5)), Literal(IntV(6)))>>)>>)),
    AssignmentStatement(Identifier("f"), "=", FunctionExpression(<<>>,
    BlockStatement(<<GotoStatement(CallExpression(Identifier("it"),
    <<>>))>>), FALSE)), AssignmentStatement(Identifier("h"), "=",
    FunctionExpression(<<>>,
    BlockStatement(<<AssignmentStatement(Identifier("r"), "=",
    CallExpression(Identifier("f"), <<>>)),
    AssignmentStatement(Identifier("after"), "=", Literal(IntV(1))),
    ReturnStatement(Identifier("r"))>>), FALSE)),
    AssignmentStatement(Identifier("z"), "=", CallExpression(Identifier("h"),
    <<>>)), AssignmentStatement(Identifier("done"), "=", Literal(IntV(1)))>>)

\*   n = 0;
\*   a = func() { global n; n = n + 1; if n < n { goto a(); } return n; };
\*   z = a();
\*   done = 1;
goto_chain(n) ==
  BlockStatement(<<AssignmentStatement(Identifier("n"), "=",
    Literal(IntV(0))), AssignmentStatement(Identifier("a"), "=",
    FunctionExpression(<<>>,
    BlockStatement(<<GlobalStatement(<<Identifier("n")>>),
    AssignmentStatement(Identifier("n"), "=",
    BinaryExpression(Identifier("n"), "+", Literal(IntV(1)))),
    IfStatement(BinaryExpression(Identifier("n"), "<", Literal(IntV(n))),
    BlockStatement(<<GotoStatement(CallExpression(Identifier("a"), <<>>))>>),
    NoNode), ReturnStatement(Identifier("n"))>>), FALSE)),
    AssignmentStatement(Identifier("z"), "=", CallExpression(Identifier("a"),
    <<>>)), AssignmentStatement(Identifier("done"), "=", Literal(IntV(1)))>>)

\*   import table;
\*   it = table["keys"]({5: 6});
\*   goto it();
goto_top ==
  BlockStatement(<<ImportStatement(<<"table">>, ""),
    AssignmentStatement(Identifier("it"), "=",
    CallExpression(MemberExpression(Identifier("table"),
    Literal(StrV("keys")), "[]"),
    <<TableExpression(<<Property(Literal(IntV(5)), Literal(IntV(6)))>>)>>)),
    GotoStatement(CallExpression(Identifier("it"), <<>>))>>)

\*   obj = {OperatorKey(op): func(a, b) { return b + a.v; }, "v": 40};
\*   r = 1 + (obj op 2) + 3;
\*   done = 1;
meta_lucy(op) ==
  BlockStatement(<<AssignmentStatement(Identifier("obj"), "=",
    TableExpression(<<Property(Literal(StrV(OperatorKey(op))),
    FunctionExpression(<<Identifier("a"), Identifier("b")>>,
    BlockStatement(<<ReturnStatement(BinaryExpression(Identifier("b"), "+",
    MemberExpression(Identifier("a"), Identifier("v"), ".")))>>), FALSE)),
    Property(Literal(StrV("v")), Literal(IntV(40)))>>)),
    AssignmentStatement(Identifier("r"), "=",
    BinaryExpression(BinaryExpression(Literal(IntV(1)), "+",
    BinaryExpression(Identifier("obj"), op, Literal(IntV(2)))), "+",
    Literal(IntV(3)))), AssignmentStatement(Identifier("done"), "=",
    Literal(IntV(1)))>>)

\*   import table;
\*   obj = {OperatorKey(op): table["raw_get"], 2: 6};
\*   r = 1 + (obj op 2) + 3;
\*   done = 1;
meta_host(op) ==
  BlockStatement(<<ImportStatement(<<"table">>, ""),
    AssignmentStatement(Identifier("obj"), "=",
    TableExpression(<<Property(Literal(StrV(OperatorKey(op))),
    MemberExpression(Identifier("table"), Literal(StrV("raw_get")), "[]")),
    Property(Literal(IntV(2)), Literal(IntV(6)))>>)),
    AssignmentStatement(Identifier("r"), "=",
    BinaryExpression(BinaryExpression(Literal(IntV(1)), "+",
    BinaryExpression(Identifier("obj"), op, Literal(IntV(2)))), "+",
    Literal(IntV(3)))), AssignmentStatement(Identifier("done"), "=",
    Literal(IntV(1)))>>)

\*   g = func() { return 7; };
\*   obj = {"__add__": func(a, b) { goto g(); }};
\*   r = obj + 2;
\*   done = 1;
meta_goto ==
  BlockStatement(<<AssignmentStatement(Identifier("g"), "=",
    FunctionExpression(<<>>,
    BlockStatement(<<ReturnStatement(Literal(IntV(7)))>>), FALSE)),
    AssignmentStatement(Identifier("obj"), "=",
    TableExpression(<<Property(Literal(StrV("__add__")),
    FunctionExpression(<<Identifier("a"), Identifier("b")>>,
    BlockStatement(<<GotoStatement(CallExpression(Identifier("g"), <<>>))>>),
    FALSE))>>)), AssignmentStatement(Identifier("r"), "=",
    BinaryExpression(Identifier("obj"), "+", Literal(IntV(2)))),
    AssignmentStatement(Identifier("done"), "=", Literal(IntV(1)))>>)

\*   log = {};
\*   obj = {"__setitem__": func(self, k, v) { log[k] = v; return 99; }};
\*   obj["a"] = 1;
\*   obj.b = 2;
\*   done = 1;
set_lucy ==
  BlockStatement(<<AssignmentStatement(Identifier("log"), "=",
    TableExpression(<<>>)), AssignmentStatement(Identifier("obj"), "=",
    TableExpression(<<Property(Literal(StrV("__setitem__")),
    FunctionExpression(<<Identifier("self"), Identifier("k"),
    Identifier("v")>>,
    BlockStatement(<<AssignmentStatement(MemberExpression(Identifier("log"),
    Identifier("k"), "[]"), "=", Identifier("v")),
    ReturnStatement(Literal(IntV(99)))>>), FALSE))>>)),
    AssignmentStatement(MemberExpression(Identifier("obj"),
    Literal(StrV("a")), "[]"), "=", Literal(IntV(1))),
    AssignmentStatement(MemberExpression(Identifier("obj"), Identifier("b"),
    "."), "=", Literal(IntV(2))), AssignmentStatement(Identifier("done"),
    "=", Literal(IntV(1)))>>)

\*   import table;
\*   obj = {"__setitem__": table["raw_set"]};
\*   obj["a"] = 1;
\*   done = 1;
set_host ==
  BlockStatement(<<ImportStatement(<<"table">>, ""),
    AssignmentStatement(Identifier("obj"), "=",
    TableExpression(<<Property(Literal(StrV("__setitem__")),
    MemberExpression(Identifier("table"), Literal(StrV("raw_set")),
    "[]"))>>)), AssignmentStatement(MemberExpression(Identifier("obj"),
    Literal(StrV("a")), "[]"), "=", Literal(IntV(1))),
    AssignmentStatement(Identifier("done"), "=", Literal(IntV(1)))>>)

\*   p = 5;
\*   f = func(p1, .., pk) { return 0; };
\*   r = f(a1, .., ak);
\*   done = 1;
call_args(args) ==
  BlockStatement(<<AssignmentStatement(Identifier("p"), "=",
    Literal(IntV(5))), AssignmentStatement(Identifier("f"), "=",
    FunctionExpression([i \in 1..Len(args) |-> Identifier(ParamNames[i])],
    BlockStatement(<<ReturnStatement(Literal(IntV(0)))>>), FALSE)),
    AssignmentStatement(Identifier("r"), "=", CallExpression(Identifier("f"),
    [i \in 1..Len(args) |-> Literal(args[i])])),
    AssignmentStatement(Identifier("done"), "=", Literal(IntV(1)))>>)

\*   mk = func() { p = 1; return |p1, .., pk| { return 0; }; };
\*   c = mk();
\*   r = c(a1, .., ak);
\*   done = 1;
call_closure(args) ==
  BlockStatement(<<AssignmentStatement(Identifier("mk"), "=",
    FunctionExpression(<<>>,
    BlockStatement(<<AssignmentStatement(Identifier("p"), "=",
    Literal(IntV(1))),
    ReturnStatement(FunctionExpression([i \in 1..Len(args) |-> Identifier(ParamNames[i])],
    BlockStatement(<<ReturnStatement(Literal(IntV(0)))>>), TRUE))>>),
    FALSE)), AssignmentStatement(Identifier("c"), "=",
    CallExpression(Identifier("mk"), <<>>)),
    AssignmentStatement(Identifier("r"), "=", CallExpression(Identifier("c"),
    [i \in 1..Len(args) |-> Literal(args[i])])),
    AssignmentStatement(Identifier("done"), "=", Literal(IntV(1)))>>)

\*   obj = {"__call__": func(self, a, b) { return a - b + self.v; }, "v": 10};
\*   r = obj(5, 3);
\*   done = 1;
callable_lucy ==
  BlockStatement(<<AssignmentStatement(Identifier("obj"), "=",
    TableExpression(<<Property(Literal(StrV("__call__")),
    FunctionExpression(<<Identifier("self"), Identifier("a"),
    Identifier("b")>>,
    BlockStatement(<<ReturnStatement(BinaryExpression(BinaryExpression(Identifier("a"),
    "-", Identifier("b")), "+", MemberExpression(Identifier("self"),
    Identifier("v"), ".")))>>), FALSE)), Property(Literal(StrV("v")),
    Literal(IntV(10)))>>)), AssignmentStatement(Identifier("r"), "=",
    CallExpression(Identifier("obj"), <<Literal(IntV(5)),
    Literal(IntV(3))>>)), AssignmentStatement(Identifier("done"), "=",
    Literal(IntV(1)))>>)

\*   import table;
\*   obj = {"__call__": table["raw_get"], 5: 6};
\*   r = obj(5);
\*   done = 1;
callable_host ==
  BlockStatement(<<ImportStatement(<<"table">>, ""),
    AssignmentStatement(Identifier("obj"), "=",
    TableExpression(<<Property(Literal(StrV("__call__")),
    MemberExpression(Identifier("table"), Literal(StrV("raw_get")), "[]")),
    Property(Literal(IntV(5)), Literal(IntV(6)))>>)),
    AssignmentStatement(Identifier("r"), "=",
    CallExpression(Identifier("obj"), <<Literal(IntV(5))>>)),
    AssignmentStatement(Identifier("done"), "=", Literal(IntV(1)))>>)

\*   obj = {"__call__": func(a) { return a; }};
\*   r = obj(5);
callable_arity ==
  BlockStatement(<<AssignmentStatement(Identifier("obj"), "=",
    TableExpression(<<Property(Literal(StrV("__call__")),
    FunctionExpression(<<Identifier("a")>>,
    BlockStatement(<<ReturnStatement(Identifier("a"))>>), FALSE))>>)),
    AssignmentStatement(Identifier("r"), "=",
    CallExpression(Identifier("obj"), <<Literal(IntV(5))>>))>>)

\*   obj = {"v": 3, "m": func(self, d) { self.v -= d; return self.v; }};
\*   r = obj.m(1);
\*   s = 7 % 4 * 2 / 3;
\*   u = s <= 1;
\*   while u { u = s != s; }
method ==
  BlockStatement(<<AssignmentStatement(Identifier("obj"), "=",
    TableExpression(<<Property(Literal(StrV("v")), Literal(IntV(3))),
    Property(Literal(StrV("m")), FunctionExpression(<<Identifier("self"),
    Identifier("d")>>,
    BlockStatement(<<AssignmentStatement(MemberExpression(Identifier("self"),
    Identifier("v"), "."), "-=", Identifier("d")),
    ReturnStatement(MemberExpression(Identifier("self"), Identifier("v"),
    "."))>>), FALSE))>>)), AssignmentStatement(Identifier("r"), "=",
    CallExpression(MemberExpression(Identifier("obj"), Identifier("m"), "."),
    <<Literal(IntV(1))>>)), AssignmentStatement(Identifier("s"), "=",
    BinaryExpression(BinaryExpression(BinaryExpression(Literal(IntV(7)), "%",
    Literal(IntV(4))), "*", Literal(IntV(2))), "/", Literal(IntV(3)))),
    AssignmentStatement(Identifier("u"), "=",
    BinaryExpression(Identifier("s"), "<=", Literal(IntV(1)))),
    WhileStatement(Identifier("u"),
    BlockStatement(<<AssignmentStatement(Identifier("u"), "=",
    BinaryExpression(Identifier("s"), "!=", Identifier("s")))>>))>>)

\*   x = 5;
\*   r = x(1);
\*   done = 1;
call_value ==
  BlockStatement(<<AssignmentStatement(Identifier("x"), "=",
    Literal(IntV(5))), AssignmentStatement(Identifier("r"), "=",
    CallExpression(Identifier("x"), <<Literal(IntV(1))>>)),
    AssignmentStatement(Identifier("done"), "=", Literal(IntV(1)))>>)

\*   obj = {"__call__": 5};
\*   r = obj();
\*   done = 1;
call_fake ==
  BlockStatement(<<AssignmentStatement(Identifier("obj"), "=",
    TableExpression(<<Property(Literal(StrV("__call__")),
    Literal(IntV(5)))>>)), AssignmentStatement(Identifier("r"), "=",
    CallExpression(Identifier("obj"), <<>>)),
    AssignmentStatement(Identifier("done"), "=", Literal(IntV(1)))>>)

\*   f = func(a) { return a; };
\*   r = f(1, 2);
\*   done = 1;
call_arity ==
  BlockStatement(<<AssignmentStatement(Identifier("f"), "=",
    FunctionExpression(<<Identifier("a")>>,
    BlockStatement(<<ReturnStatement(Identifier("a"))>>), FALSE)),
    AssignmentStatement(Identifier("r"), "=", CallExpression(Identifier("f"),
    <<Literal(IntV(1)), Literal(IntV(2))>>)),
    AssignmentStatement(Identifier("done"), "=", Literal(IntV(1)))>>)

\*   import table;
\*   t = {};
\*   r = table["raw_set"](t, 1);
\*   done = 1;
call_host ==
  BlockStatement(<<ImportStatement(<<"table">>, ""),
    AssignmentStatement(Identifier("t"), "=", TableExpression(<<>>)),
    AssignmentStatement(Identifier("r"), "=",
    CallExpression(MemberExpression(Identifier("table"),
    Literal(StrV("raw_set")), "[]"), <<Identifier("t"), Literal(IntV(1))>>)),
    AssignmentStatement(Identifier("done"), "=", Literal(IntV(1)))>>)

\*   global n;
\*   x = n;
\*   done = 1;
load_decl ==
  BlockStatement(<<GlobalStatement(<<Identifier("n")>>),
    AssignmentStatement(Identifier("x"), "=", Identifier("n")),
    AssignmentStatement(Identifier("done"), "=", Literal(IntV(1)))>>)

\*   mk = func() { n = 10; return || { global n; n = 5; n = null; return n; }; };
\*   c = mk();
\*   r = c();
\*   done = 1;
global_unbound ==
  BlockStatement(<<AssignmentStatement(Identifier("mk"), "=",
    FunctionExpression(<<>>,
    BlockStatement(<<AssignmentStatement(Identifier("n"), "=",
    Literal(IntV(10))), ReturnStatement(FunctionExpression(<<>>,
    BlockStatement(<<GlobalStatement(<<Identifier("n")>>),
    AssignmentStatement(Identifier("n"), "=", Literal(IntV(5))),
    AssignmentStatement(Identifier("n"), "=", Literal(Null)),
    ReturnStatement(Identifier("n"))>>), TRUE))>>), FALSE)),
    AssignmentStatement(Identifier("c"), "=",
    CallExpression(Identifier("mk"), <<>>)),
    AssignmentStatement(Identifier("r"), "=", CallExpression(Identifier("c"),
    <<>>)), AssignmentStatement(Identifier("done"), "=", Literal(IntV(1)))>>)

\*   import table;
\*   t = {"a": 1, "b": null, "c": 3};
\*   t["a"] = null;
\*   t.c = null;
\*   t.d = 4;
\*   table["raw_set"](t, "d", null);
\*   table["raw_set"](t, "e", 5);
\*   t[1] = 7;
\*   t[true] = null;
\*   t.f = null;
\*   r = t["zz"];
\*   n = table["raw_len"](t);
\*   done = 1;
table_null ==
  BlockStatement(<<ImportStatement(<<"table">>, ""),
    AssignmentStatement(Identifier("t"), "=",
    TableExpression(<<Property(Literal(StrV("a")), Literal(IntV(1))),
    Property(Literal(StrV("b")), Literal(Null)), Property(Literal(StrV("c")),
    Literal(IntV(3)))>>)),
    AssignmentStatement(MemberExpression(Identifier("t"), Literal(StrV("a")),
    "[]"), "=", Literal(Null)),
    AssignmentStatement(MemberExpression(Identifier("t"), Identifier("c"),
    "."), "=", Literal(Null)),
    AssignmentStatement(MemberExpression(Identifier("t"), Identifier("d"),
    "."), "=", Literal(IntV(4))),
    CallExpression(MemberExpression(Identifier("table"),
    Literal(StrV("raw_set")), "[]"), <<Identifier("t"), Literal(StrV("d")),
    Literal(Null)>>), CallExpression(MemberExpression(Identifier("table"),
    Literal(StrV("raw_set")), "[]"), <<Identifier("t"), Literal(StrV("e")),
    Literal(IntV(5))>>),
    AssignmentStatement(MemberExpression(Identifier("t"), Literal(IntV(1)),
    "[]"), "=", Literal(IntV(7))),
    AssignmentStatement(MemberExpression(Identifier("t"),
    Literal(BoolV(TRUE)), "[]"), "=", Literal(Null)),
    AssignmentStatement(MemberExpression(Identifier("t"), Identifier("f"),
    "."), "=", Literal(Null)), AssignmentStatement(Identifier("r"), "=",
    MemberExpression(Identifier("t"), Literal(StrV("zz")), "[]")),
    AssignmentStatement(Identifier("n"), "=",
    CallExpression(MemberExpression(Identifier("table"),
    Literal(StrV("raw_len")), "[]"), <<Identifier("t")>>)),
    AssignmentStatement(Identifier("done"), "=", Literal(IntV(1)))>>)

\*   mk = func() { n = 0; return || { n = n + 1; return n; }; };
\*   c = mk();
\*   d = mk();
\*   a = c();
\*   b = c();
\*   e = d();
\*   f = func(k) { if k { v = 1; w = f(false); return w; } return v; };
\*   g = f(true);
\*   done = 1;
closure_pair ==
  BlockStatement(<<AssignmentStatement(Identifier("mk"), "=",
    FunctionExpression(<<>>,
    BlockStatement(<<AssignmentStatement(Identifier("n"), "=",
    Literal(IntV(0))), ReturnStatement(FunctionExpression(<<>>,
    BlockStatement(<<AssignmentStatement(Identifier("n"), "=",
    BinaryExpression(Identifier("n"), "+", Literal(IntV(1)))),
    ReturnStatement(Identifier("n"))>>), TRUE))>>), FALSE)),
    AssignmentStatement(Identifier("c"), "=",
    CallExpression(Identifier("mk"), <<>>)),
    AssignmentStatement(Identifier("d"), "=",
    CallExpression(Identifier("mk"), <<>>)),
    AssignmentStatement(Identifier("a"), "=", CallExpression(Identifier("c"),
    <<>>)), AssignmentStatement(Identifier("b"), "=",
    CallExpression(Identifier("c"), <<>>)),
    AssignmentStatement(Identifier("e"), "=", CallExpression(Identifier("d"),
    <<>>)), AssignmentStatement(Identifier("f"), "=",
    FunctionExpression(<<Identifier("k")>>,
    BlockStatement(<<IfStatement(Identifier("k"),
    BlockStatement(<<AssignmentStatement(Identifier("v"), "=",
    Literal(IntV(1))), AssignmentStatement(Identifier("w"), "=",
    CallExpression(Identifier("f"), <<Literal(BoolV(FALSE))>>)),
    ReturnStatement(Identifier("w"))>>), NoNode),
    ReturnStatement(Identifier("v"))>>), FALSE)),
    AssignmentStatement(Identifier("g"), "=", CallExpression(Identifier("f"),
    <<Literal(BoolV(TRUE))>>)), AssignmentStatement(Identifier("done"), "=",
    Literal(IntV(1)))>>)

\* the operands of the tested expressions: a literal of every kind, a table
\* and a closure
Operands ==
  <<Literal(Null), Literal(BoolV(TRUE)), Literal(BoolV(FALSE)), Literal(IntV(0)),
    Literal(IntV(1)), Literal(FloatV(1)), Literal(StrV("s")), TableExpression(<<>>),
    Identifier("type")>>

\* the short-circuit operators
ShortCircuit == {"and", "or"}

\*   x = Operands[n] op 5;
\*   done = 1;
short(n, op) ==
  BlockStatement(<<AssignmentStatement(Identifier("x"), "=",
    BinaryExpression(Operands[n], op, Literal(IntV(5)))),
    AssignmentStatement(Identifier("done"), "=", Literal(IntV(1)))>>)

\*   if Operands[n] { r = 1; } else { r = 2; }
\*   done = 1;
test_if(n) ==
  BlockStatement(<<IfStatement(Operands[n],
    BlockStatement(<<AssignmentStatement(Identifier("r"), "=",
    Literal(IntV(1)))>>),
    BlockStatement(<<AssignmentStatement(Identifier("r"), "=",
    Literal(IntV(2)))>>)), AssignmentStatement(Identifier("done"), "=",
    Literal(IntV(1)))>>)

\*   r = !Operands[n];
\*   done = 1;
test_not(n) ==
  BlockStatement(<<AssignmentStatement(Identifier("r"), "=",
    UnaryExpression("!", Operands[n])),
    AssignmentStatement(Identifier("done"), "=", Literal(IntV(1)))>>)

\* a code program LVM is constructed on as built, not generated from a
\* source (the generator never emits JUMP_IF_TRUE):
\*    0 LOAD_CONST Operands[n]   (BUILD_TABLE 0 for the table, LOAD_NAME type
\*                                for the closure)
\*    1 JUMP_IF_TRUE 5
\*    2 LOAD_CONST 2     3 STORE r      4 JUMP 7
\*    5 LOAD_CONST 1     6 STORE r
\*    7 LOAD_CONST 1     8 STORE done
\*    9 LOAD_CONST null 10 RETURN
jump_if_true(n) ==
  LET code(op, arg) == [op |-> op, arg |-> arg]
      operand == Operands[n]
  IN CodeProgram(
       <<CASE operand.type = "Literal" -> code("LOAD_CONST", 3)
           [] operand.type = "TableExpression" -> code("BUILD_TABLE", 0)
           [] operand.type = "Identifier" -> code("LOAD_NAME", 2),
         code("JUMP_IF_TRUE", 5),
         code("LOAD_CONST", 2), code("STORE", 0), code("JUMP", 7),
         code("LOAD_CONST", 1), code("STORE", 0),
         code("LOAD_CONST", 1), code("STORE", 1),
         code("LOAD_CONST", 0), code("RETURN", NoArg)>>,
       <<Null, IntV(1), IntV(2),
         IF operand.type = "Literal" THEN operand.value ELSE Null>>,
       <<"r", "done", "type">>,
       "")

\* the primitive operands of the arithmetic programs
Primitives == {IntV(0), IntV(2), IntV(7), IntV(-7), FloatV(0), FloatV(1), StrV("s")}

\* the expression written for a value: a literal, a negative Int -k as 0 - k
Operand(value) ==
  IF value.t = "int" /\ value.i < 0
  THEN BinaryExpression(Literal(IntV(0)), "-", Literal(IntV(0 - value.i)))
  ELSE Literal(value)

\*   r = a1 op a2;
\*   done = 1;
arith(op, args) ==
  BlockStatement(<<AssignmentStatement(Identifier("r"), "=",
    BinaryExpression(Operand(args[1]), op, Operand(args[2]))),
    AssignmentStatement(Identifier("done"), "=", Literal(IntV(1)))>>)

\*   a = 1;
\*   b = 1;
\*   f = func() { a = 2; return a; };
\*   mk = func() { b = 2; return || { return b; }; };
\*   c = mk();
\*   h = func() { global a; return a; };
\*   r1 = f();
\*   r2 = c();
\*   r3 = h();
\*   done = 1;
load_order ==
  BlockStatement(<<AssignmentStatement(Identifier("a"), "=",
    Literal(IntV(1))), AssignmentStatement(Identifier("b"), "=",
    Literal(IntV(1))), AssignmentStatement(Identifier("f"), "=",
    FunctionExpression(<<>>,
    BlockStatement(<<AssignmentStatement(Identifier("a"), "=",
    Literal(IntV(2))), ReturnStatement(Identifier("a"))>>), FALSE)),
    AssignmentStatement(Identifier("mk"), "=", FunctionExpression(<<>>,
    BlockStatement(<<AssignmentStatement(Identifier("b"), "=",
    Literal(IntV(2))), ReturnStatement(FunctionExpression(<<>>,
    BlockStatement(<<ReturnStatement(Identifier("b"))>>), TRUE))>>), FALSE)),
    AssignmentStatement(Identifier("c"), "=",
    CallExpression(Identifier("mk"), <<>>)),
    AssignmentStatement(Identifier("h"), "=", FunctionExpression(<<>>,
    BlockStatement(<<GlobalStatement(<<Identifier("a")>>),
    ReturnStatement(Identifier("a"))>>), FALSE)),
    AssignmentStatement(Identifier("r1"), "=",
    CallExpression(Identifier("f"), <<>>)),
    AssignmentStatement(Identifier("r2"), "=",
    CallExpression(Identifier("c"), <<>>)),
    AssignmentStatement(Identifier("r3"), "=",
    CallExpression(Identifier("h"), <<>>)),
    AssignmentStatement(Identifier("done"), "=", Literal(IntV(1)))>>)

\*   type = 7;
\*   k = func() { return type; };
\*   m = func() { return assert; };
\*   z = func() { return nothing; };
\*   r4 = k();
\*   r5 = m();
\*   r6 = z();
\*   done = 1;
load_builtin ==
  BlockStatement(<<AssignmentStatement(Identifier("type"), "=",
    Literal(IntV(7))), AssignmentStatement(Identifier("k"), "=",
    FunctionExpression(<<>>,
    BlockStatement(<<ReturnStatement(Identifier("type"))>>), FALSE)),
    AssignmentStatement(Identifier("m"), "=", FunctionExpression(<<>>,
    BlockStatement(<<ReturnStatement(Identifier("assert"))>>), FALSE)),
    AssignmentStatement(Identifier("z"), "=", FunctionExpression(<<>>,
    BlockStatement(<<ReturnStatement(Identifier("nothing"))>>), FALSE)),
    AssignmentStatement(Identifier("r4"), "=",
    CallExpression(Identifier("k"), <<>>)),
    AssignmentStatement(Identifier("r5"), "=",
    CallExpression(Identifier("m"), <<>>)),
    AssignmentStatement(Identifier("r6"), "=",
    CallExpression(Identifier("z"), <<>>)),
    AssignmentStatement(Identifier("done"), "=", Literal(IntV(1)))>>)

\* the program and the package files it finds under the names a, b:
\*   import a;
\*   import b;
\*   x = a.v;
\*   y = b.v;
\*   done = 1;
import_two ==
  BlockStatement(<<ImportStatement(<<"a">>, ""), ImportStatement(<<"b">>,
    ""), AssignmentStatement(Identifier("x"), "=",
    MemberExpression(Identifier("a"), Identifier("v"), ".")),
    AssignmentStatement(Identifier("y"), "=",
    MemberExpression(Identifier("b"), Identifier("v"), ".")),
    AssignmentStatement(Identifier("done"), "=", Literal(IntV(1)))>>)

\* file a:
\*   v = 1;
import_two_a ==
  BlockStatement(<<AssignmentStatement(Identifier("v"), "=",
    Literal(IntV(1)))>>)

\* file b:
\*   v = 2;
import_two_b ==
  BlockStatement(<<AssignmentStatement(Identifier("v"), "=",
    Literal(IntV(2)))>>)

\* the program and the package files it finds under the names a, b:
\*   import a;
\*   x = a.v;
\*   y = a.b.v;
\*   done = 1;
import_nested ==
  BlockStatement(<<ImportStatement(<<"a">>, ""),
    AssignmentStatement(Identifier("x"), "=",
    MemberExpression(Identifier("a"), Identifier("v"), ".")),
    AssignmentStatement(Identifier("y"), "=",
    MemberExpression(MemberExpression(Identifier("a"), Identifier("b"), "."),
    Identifier("v"), ".")), AssignmentStatement(Identifier("done"), "=",
    Literal(IntV(1)))>>)

\* file a:
\*   import b;
\*   v = b.v + 1;
import_nested_a ==
  BlockStatement(<<ImportStatement(<<"b">>, ""),
    AssignmentStatement(Identifier("v"), "=",
    BinaryExpression(MemberExpression(Identifier("b"), Identifier("v"), "."),
    "+", Literal(IntV(1))))>>)

\* file b:
\*   v = 5;
import_nested_b ==
  BlockStatement(<<AssignmentStatement(Identifier("v"), "=",
    Literal(IntV(5)))>>)

\* the program and the package files it finds under the names a:
\*   import a;
\*   f = a.f;
\*   r = f();
\*   done = 1;
import_fn ==
  BlockStatement(<<ImportStatement(<<"a">>, ""),
    AssignmentStatement(Identifier("f"), "=",
    MemberExpression(Identifier("a"), Identifier("f"), ".")),
    AssignmentStatement(Identifier("r"), "=", CallExpression(Identifier("f"),
    <<>>)), AssignmentStatement(Identifier("done"), "=", Literal(IntV(1)))>>)

\* file a:
\*   k = 41;
\*   f = func() { return k + 1; };
import_fn_a ==
  BlockStatement(<<AssignmentStatement(Identifier("k"), "=",
    Literal(IntV(41))), AssignmentStatement(Identifier("f"), "=",
    FunctionExpression(<<>>,
    BlockStatement(<<ReturnStatement(BinaryExpression(Identifier("k"), "+",
    Literal(IntV(1))))>>), FALSE))>>)

\* the program and the package files it finds under the names a:
\*   import a.v;
\*   r = v;
\*   done = 1;
import_path ==
  BlockStatement(<<ImportStatement(<<"a", "v">>, ""),
    AssignmentStatement(Identifier("r"), "=", Identifier("v")),
    AssignmentStatement(Identifier("done"), "=", Literal(IntV(1)))>>)

\* file a:
\*   v = 3;
import_path_a ==
  BlockStatement(<<AssignmentStatement(Identifier("v"), "=",
    Literal(IntV(3)))>>)

\* the program and the package files it finds under the names a:
\*   import a;
\*   mk = a.mk;
\*   g = mk();
\*   r = g();
\*   done = 1;
import_mk ==
  BlockStatement(<<ImportStatement(<<"a">>, ""),
    AssignmentStatement(Identifier("mk"), "=",
    MemberExpression(Identifier("a"), Identifier("mk"), ".")),
    AssignmentStatement(Identifier("g"), "=",
    CallExpression(Identifier("mk"), <<>>)),
    AssignmentStatement(Identifier("r"), "=", CallExpression(Identifier("g"),
    <<>>)), AssignmentStatement(Identifier("done"), "=", Literal(IntV(1)))>>)

\* file a:
\*   mk = func() { return func() { return 42; }; };
import_mk_a ==
  BlockStatement(<<AssignmentStatement(Identifier("mk"), "=",
    FunctionExpression(<<>>,
    BlockStatement(<<ReturnStatement(FunctionExpression(<<>>,
    BlockStatement(<<ReturnStatement(Literal(IntV(42)))>>), FALSE))>>),
    FALSE))>>)

\*   f = func() {
\*     x = 1;
\*     g = func() {
\*       h = || { return x; };
\*       return h();
\*     };
\*     return g();
\*   };
\*   r = f();
\*   done = 1;
closure_chain ==
  BlockStatement(<<AssignmentStatement(Identifier("f"), "=",
    FunctionExpression(<<>>,
    BlockStatement(<<AssignmentStatement(Identifier("x"), "=",
    Literal(IntV(1))), AssignmentStatement(Identifier("g"), "=",
    FunctionExpression(<<>>,
    BlockStatement(<<AssignmentStatement(Identifier("h"), "=",
    FunctionExpression(<<>>,
    BlockStatement(<<ReturnStatement(Identifier("x"))>>), TRUE)),
    ReturnStatement(CallExpression(Identifier("h"), <<>>))>>), FALSE)),
    ReturnStatement(CallExpression(Identifier("g"), <<>>))>>), FALSE)),
    AssignmentStatement(Identifier("r"), "=", CallExpression(Identifier("f"),
    <<>>)), AssignmentStatement(Identifier("done"), "=", Literal(IntV(1)))>>)

\*   n = 0;
\*   loop {
\*     n = n + 1;
\*     if n < 2 { continue; }
\*     break;
\*   }
\*   done = 1;
loop_break ==
  BlockStatement(<<AssignmentStatement(Identifier("n"), "=",
    Literal(IntV(0))),
    LoopStatement(BlockStatement(<<AssignmentStatement(Identifier("n"), "=",
    BinaryExpression(Identifier("n"), "+", Literal(IntV(1)))),
    IfStatement(BinaryExpression(Identifier("n"), "<", Literal(IntV(2))),
    BlockStatement(<<ContinueStatement>>), NoNode), BreakStatement>>)),
    AssignmentStatement(Identifier("done"), "=", Literal(IntV(1)))>>)

\*   i = 0;
\*   r = 0;
\*   while i < 2 {
\*     i = i + 1;
\*     while true { r = r + 1; break; }
\*     if i == 1 { continue; }
\*     r = r + 10;
\*   }
\*   done = 1;
while_nested ==
  BlockStatement(<<AssignmentStatement(Identifier("i"), "=",
    Literal(IntV(0))), AssignmentStatement(Identifier("r"), "=",
    Literal(IntV(0))), WhileStatement(BinaryExpression(Identifier("i"), "<",
    Literal(IntV(2))), BlockStatement(<<AssignmentStatement(Identifier("i"),
    "=", BinaryExpression(Identifier("i"), "+", Literal(IntV(1)))),
    WhileStatement(Literal(BoolV(TRUE)),
    BlockStatement(<<AssignmentStatement(Identifier("r"), "=",
    BinaryExpression(Identifier("r"), "+", Literal(IntV(1)))),
    BreakStatement>>)), IfStatement(BinaryExpression(Identifier("i"), "==",
    Literal(IntV(1))), BlockStatement(<<ContinueStatement>>), NoNode),
    AssignmentStatement(Identifier("r"), "=",
    BinaryExpression(Identifier("r"), "+", Literal(IntV(10))))>>)),
    AssignmentStatement(Identifier("done"), "=", Literal(IntV(1)))>>)

\*   import table;
\*   r = 0;
\*   for k in table["keys"]({1: 10, 2: 20, 3: 30}) {
\*     if k == 1 { continue; }
\*     r = k;
\*     break;
\*   }
\*   done = 1;
for_break ==
  BlockStatement(<<ImportStatement(<<"table">>, ""),
    AssignmentStatement(Identifier("r"), "=", Literal(IntV(0))),
    ForStatement(Identifier("k"),
    CallExpression(MemberExpression(Identifier("table"),
    Literal(StrV("keys")), "[]"),
    <<TableExpression(<<Property(Literal(IntV(1)), Literal(IntV(10))),
    Property(Literal(IntV(2)), Literal(IntV(20))), Property(Literal(IntV(3)),
    Literal(IntV(30)))>>)>>),
    BlockStatement(<<IfStatement(BinaryExpression(Identifier("k"), "==",
    Literal(IntV(1))), BlockStatement(<<ContinueStatement>>), NoNode),
    AssignmentStatement(Identifier("r"), "=", Identifier("k")),
    BreakStatement>>)), AssignmentStatement(Identifier("done"), "=",
    Literal(IntV(1)))>>)

\*   f = func(n) {
\*     r = 0;
\*     while true {
\*       r = r + 1;
\*       if r < n { continue; } else { break; }
\*     }
\*     return r;
\*   };
\*   r = f(2);
\*   done = 1;
fn_loop ==
  BlockStatement(<<AssignmentStatement(Identifier("f"), "=",
    FunctionExpression(<<Identifier("n")>>,
    BlockStatement(<<AssignmentStatement(Identifier("r"), "=",
    Literal(IntV(0))), WhileStatement(Literal(BoolV(TRUE)),
    BlockStatement(<<AssignmentStatement(Identifier("r"), "=",
    BinaryExpression(Identifier("r"), "+", Literal(IntV(1)))),
    IfStatement(BinaryExpression(Identifier("r"), "<", Identifier("n")),
    BlockStatement(<<ContinueStatement>>),
    BlockStatement(<<BreakStatement>>))>>)),
    ReturnStatement(Identifier("r"))>>), FALSE)),
    AssignmentStatement(Identifier("r"), "=", CallExpression(Identifier("f"),
    <<Literal(IntV(2))>>)), AssignmentStatement(Identifier("done"), "=",
    Literal(IntV(1)))>>)

\*   x = 1; break;
break_top ==
  BlockStatement(<<AssignmentStatement(Identifier("x"), "=",
    Literal(IntV(1))), BreakStatement>>)

\*   x = 1; continue;
continue_top ==
  BlockStatement(<<AssignmentStatement(Identifier("x"), "=",
    Literal(IntV(1))), ContinueStatement>>)

\*   f = func() { if true { break; } }; done = 1;
break_fn ==
  BlockStatement(<<AssignmentStatement(Identifier("f"), "=",
    FunctionExpression(<<>>,
    BlockStatement(<<IfStatement(Literal(BoolV(TRUE)),
    BlockStatement(<<BreakStatement>>), NoNode)>>), FALSE)),
    AssignmentStatement(Identifier("done"), "=", Literal(IntV(1)))>>)

\*   while false { x = 1; } continue; done = 1;
continue_after ==
  BlockStatement(<<WhileStatement(Literal(BoolV(FALSE)),
    BlockStatement(<<AssignmentStatement(Identifier("x"), "=",
    Literal(IntV(1)))>>)), ContinueStatement,
    AssignmentStatement(Identifier("done"), "=", Literal(IntV(1)))>>)

\*   r = assert(Operands[n]);
\*   done = 1;
assert_call(n) ==
  BlockStatement(<<AssignmentStatement(Identifier("r"), "=",
    CallExpression(Identifier("assert"), <<Operands[n]>>)),
    AssignmentStatement(Identifier("done"), "=", Literal(IntV(1)))>>)

\*   g = func(p1, .., pk) { return 0; };
\*   f = func() { goto g(a1, .., ak); };
\*   r = f();
\*   done = 1;
goto_args(args) ==
  BlockStatement(<<AssignmentStatement(Identifier("g"), "=",
    FunctionExpression([i \in 1..Len(args) |-> Identifier(ParamNames[i])],
    BlockStatement(<<ReturnStatement(Literal(IntV(0)))>>), FALSE)),
    AssignmentStatement(Identifier("f"), "=", FunctionExpression(<<>>,
    BlockStatement(<<GotoStatement(CallExpression(Identifier("g"),
    [i \in 1..Len(args) |-> Literal(args[i])]))>>), FALSE)),
    AssignmentStatement(Identifier("r"), "=", CallExpression(Identifier("f"),
    <<>>)), AssignmentStatement(Identifier("done"), "=", Literal(IntV(1)))>>)

\* the operands used as table keys: null, true, 1, 1.0, "s", a table and a
\* closure
TableKeys == {1, 2, 5, 6, 7, 8, 9}

\* the values stored under them
TableValues == {Null, IntV(5), IntV(6)}

\*   t = {Operands[i]: v1, Operands[j]: v2};
\*   done = 1;
build_table(i, j, args) ==
  BlockStatement(<<AssignmentStatement(Identifier("t"), "=",
    TableExpression(<<Property(Operands[i], Literal(args[1])),
    Property(Operands[j], Literal(args[2]))>>)),
    AssignmentStatement(Identifier("done"), "=", Literal(IntV(1)))>>)

\*   f = func(a, b) { return 0; };
\*   obj = {OperatorKey(op): f};
\*   r = 1 op obj;
\*   done = 1;
side_right(op) ==
  BlockStatement(<<AssignmentStatement(Identifier("f"), "=",
    FunctionExpression(<<Identifier("a"), Identifier("b")>>,
    BlockStatement(<<ReturnStatement(Literal(IntV(0)))>>), FALSE)),
    AssignmentStatement(Identifier("obj"), "=",
    TableExpression(<<Property(Literal(StrV(OperatorKey(op))),
    Identifier("f"))>>)), AssignmentStatement(Identifier("r"), "=",
    BinaryExpression(Literal(IntV(1)), op, Identifier("obj"))),
    AssignmentStatement(Identifier("done"), "=", Literal(IntV(1)))>>)

\*   f = func(a, b) { return 0; };
\*   base = {OperatorKey(op): f};
\*   obj = {"__base__": base};
\*   r = obj op 1;
\*   done = 1;
side_base(op) ==
  BlockStatement(<<AssignmentStatement(Identifier("f"), "=",
    FunctionExpression(<<Identifier("a"), Identifier("b")>>,
    BlockStatement(<<ReturnStatement(Literal(IntV(0)))>>), FALSE)),
    AssignmentStatement(Identifier("base"), "=",
    TableExpression(<<Property(Literal(StrV(OperatorKey(op))),
    Identifier("f"))>>)), AssignmentStatement(Identifier("obj"), "=",
    TableExpression(<<Property(Literal(StrV("__base__")),
    Identifier("base"))>>)), AssignmentStatement(Identifier("r"), "=",
    BinaryExpression(Identifier("obj"), op, Literal(IntV(1)))),
    AssignmentStatement(Identifier("done"), "=", Literal(IntV(1)))>>)

\*   f = func(a, b) { return 0; };
\*   obj = {OperatorKey(op): f};
\*   e = {};
\*   r = e op obj;
\*   done = 1;
side_plain(op) ==
  BlockStatement(<<AssignmentStatement(Identifier("f"), "=",
    FunctionExpression(<<Identifier("a"), Identifier("b")>>,
    BlockStatement(<<ReturnStatement(Literal(IntV(0)))>>), FALSE)),
    AssignmentStatement(Identifier("obj"), "=",
    TableExpression(<<Property(Literal(StrV(OperatorKey(op))),
    Identifier("f"))>>)), AssignmentStatement(Identifier("e"), "=",
    TableExpression(<<>>)), AssignmentStatement(Identifier("r"), "=",
    BinaryExpression(Identifier("e"), op, Identifier("obj"))),
    AssignmentStatement(Identifier("done"), "=", Literal(IntV(1)))>>)

\*   obj = {OperatorKey(op): 5};
\*   r = obj op 1;
\*   done = 1;
side_value(op) ==
  BlockStatement(<<AssignmentStatement(Identifier("obj"), "=",
    TableExpression(<<Property(Literal(StrV(OperatorKey(op))),
    Literal(IntV(5)))>>)), AssignmentStatement(Identifier("r"), "=",
    BinaryExpression(Identifier("obj"), op, Literal(IntV(1)))),
    AssignmentStatement(Identifier("done"), "=", Literal(IntV(1)))>>)

\*   f = func(a, b) { return 0; };
\*   obj = {OperatorKey(op): f};
\*   r = "s" op obj;
\*   done = 1;
side_str(op) ==
  BlockStatement(<<AssignmentStatement(Identifier("f"), "=",
    FunctionExpression(<<Identifier("a"), Identifier("b")>>,
    BlockStatement(<<ReturnStatement(Literal(IntV(0)))>>), FALSE)),
    AssignmentStatement(Identifier("obj"), "=",
    TableExpression(<<Property(Literal(StrV(OperatorKey(op))),
    Identifier("f"))>>)), AssignmentStatement(Identifier("r"), "=",
    BinaryExpression(Literal(StrV("s")), op, Identifier("obj"))),
    AssignmentStatement(Identifier("done"), "=", Literal(IntV(1)))>>)

\*   g = func() { return 7; };
\*   obj = {"__add__": func(a, b) { goto g(); }};
\*   r = g + (obj + 2);
\*   done = 1;
flag_goto ==
  BlockStatement(<<AssignmentStatement(Identifier("g"), "=",
    FunctionExpression(<<>>,
    BlockStatement(<<ReturnStatement(Literal(IntV(7)))>>), FALSE)),
    AssignmentStatement(Identifier("obj"), "=",
    TableExpression(<<Property(Literal(StrV("__add__")),
    FunctionExpression(<<Identifier("a"), Identifier("b")>>,
    BlockStatement(<<GotoStatement(CallExpression(Identifier("g"), <<>>))>>),
    FALSE))>>)), AssignmentStatement(Identifier("r"), "=",
    BinaryExpression(Identifier("g"), "+",
    BinaryExpression(Identifier("obj"), "+", Literal(IntV(2))))),
    AssignmentStatement(Identifier("done"), "=", Literal(IntV(1)))>>)

\*   n = 1;
\*   mk = func() { global n; return || { return n; }; };
\*   c = mk();
\*   r = c();
\*   done = 1;
load_outer ==
  BlockStatement(<<AssignmentStatement(Identifier("n"), "=",
    Literal(IntV(1))), AssignmentStatement(Identifier("mk"), "=",
    FunctionExpression(<<>>,
    BlockStatement(<<GlobalStatement(<<Identifier("n")>>),
    ReturnStatement(FunctionExpression(<<>>,
    BlockStatement(<<ReturnStatement(Identifier("n"))>>), TRUE))>>), FALSE)),
    AssignmentStatement(Identifier("c"), "=",
    CallExpression(Identifier("mk"), <<>>)),
    AssignmentStatement(Identifier("r"), "=", CallExpression(Identifier("c"),
    <<>>)), AssignmentStatement(Identifier("done"), "=", Literal(IntV(1)))>>)

\*   i = 0;
\*   while i < 1 {
\*     i = i + 1;
\*     f = func() { break; };
\*     f();
\*   }
\*   done = 1;
break_leak ==
  BlockStatement(<<AssignmentStatement(Identifier("i"), "=",
    Literal(IntV(0))), WhileStatement(BinaryExpression(Identifier("i"), "<",
    Literal(IntV(1))), BlockStatement(<<AssignmentStatement(Identifier("i"),
    "=", BinaryExpression(Identifier("i"), "+", Literal(IntV(1)))),
    AssignmentStatement(Identifier("f"), "=", FunctionExpression(<<>>,
    BlockStatement(<<BreakStatement>>), FALSE)),
    CallExpression(Identifier("f"), <<>>)>>)),
    AssignmentStatement(Identifier("done"), "=", Literal(IntV(1)))>>)

\*   obj = {"__neg__": func(a) { return a.v + 1; }, "v": 4};
\*   r = 1 + -obj;
\*   done = 1;
neg_meta ==
  BlockStatement(<<AssignmentStatement(Identifier("obj"), "=",
    TableExpression(<<Property(Literal(StrV("__neg__")),
    FunctionExpression(<<Identifier("a")>>,
    BlockStatement(<<ReturnStatement(BinaryExpression(MemberExpression(Identifier("a"),
    Identifier("v"), "."), "+", Literal(IntV(1))))>>), FALSE)),
    Property(Literal(StrV("v")), Literal(IntV(4)))>>)),
    AssignmentStatement(Identifier("r"), "=",
    BinaryExpression(Literal(IntV(1)), "+", UnaryExpression("-",
    Identifier("obj")))), AssignmentStatement(Identifier("done"), "=",
    Literal(IntV(1)))>>)

\*   r = -Operands[n];
\*   done = 1;
neg(n) ==
  BlockStatement(<<AssignmentStatement(Identifier("r"), "=",
    UnaryExpression("-", Operands[n])),
    AssignmentStatement(Identifier("done"), "=", Literal(IntV(1)))>>)

\* the operands of the programs on Bool operands: true, false, 1 and 1.0
BoolOperands == {2, 3, 5, 6}

\*   r = Operands[i] op Operands[j];
\*   done = 1;
bool_arith(i, j, op) ==
  BlockStatement(<<AssignmentStatement(Identifier("r"), "=",
    BinaryExpression(Operands[i], op, Operands[j])),
    AssignmentStatement(Identifier("done"), "=", Literal(IntV(1)))>>)

\* what identifies a program: its name and the parameters of its source
Input(name, n, op, args) == [name |-> name, n |-> n, op |-> op, args |-> args]

Program(name, n, op, args, ast) == [input |-> Input(name, n, op, args), ast |-> ast]

\* a package file as package_paths and the file system hold it
File(name, ast) == [name |-> name, ast |-> ast]

\* a program run with package files to import
Package(name, ast, files) ==
  [input |-> Input(name, 0, "", <<>>), ast |-> ast, files |-> files]

\* a program given as code
Built(name, n, code_program) ==
  [input |-> Input(name, n, "", <<>>), code_program |-> code_program]

ArgLists == UNION {[1..k -> ArgValues] : k \in 0..MaxArgs}

Programs ==
  {Program("proto", 0, "", <<>>, proto),
   Program("counter", 0, "", <<>>, counter),
   Program("store_global", 0, "", <<>>, store_global),
   Program("store_null", 0, "", <<>>, store_null),
   Program("store_plain", 0, "", <<>>, store_plain),
   Program("store_top", 0, "", <<>>, store_top),
   Program("store_two", 0, "", <<>>, store_two),
   Program("store_stale", 0, "", <<>>, store_stale),
   Program("store_outer", 0, "", <<>>, store_outer),
   Program("store_decl", 0, "", <<>>, store_decl),
   Program("for_fn", 0, "", <<>>, for_fn),
   Program("goto_lucy", 0, "", <<>>, goto_lucy),
   Program("goto_host", 0, "", <<>>, goto_host),
   Program("goto_top", 0, "", <<>>, goto_top),
   Program("meta_goto", 0, "", <<>>, meta_goto),
   Program("set_lucy", 0, "", <<>>, set_lucy),
   Program("set_host", 0, "", <<>>, set_host),
   Program("callable_lucy", 0, "", <<>>, callable_lucy),
   Program("callable_host", 0, "", <<>>, callable_host),
   Program("callable_arity", 0, "", <<>>, callable_arity),
   Program("call_value", 0, "", <<>>, call_value),
   Program("call_fake", 0, "", <<>>, call_fake),
   Program("call_arity", 0, "", <<>>, call_arity),
   Program("call_host", 0, "", <<>>, call_host),
   Program("load_decl", 0, "", <<>>, load_decl),
   Program("global_unbound", 0, "", <<>>, global_unbound),
   Program("table_null", 0, "", <<>>, table_null),
   Program("closure_pair", 0, "", <<>>, closure_pair),
   Program("load_order", 0, "", <<>>, load_order),
   Program("load_builtin", 0, "", <<>>, load_builtin),
   Package("import_two", import_two, <<File("a", import_two_a), File("b", import_two_b)>>),
   Package("import_nested", import_nested, <<File("a", import_nested_a), File("b", import_nested_b)>>),
   Package("import_fn", import_fn, <<File("a", import_fn_a)>>),
   Package("import_path", import_path, <<File("a", import_path_a)>>),
   Package("import_mk", import_mk, <<File("a", import_mk_a)>>),
   Program("closure_chain", 0, "", <<>>, closure_chain),
   Program("loop_break", 0, "", <<>>, loop_break),
   Program("while_nested", 0, "", <<>>, while_nested),
   Program("for_break", 0, "", <<>>, for_break),
   Program("fn_loop", 0, "", <<>>, fn_loop),
   Program("break_top", 0, "", <<>>, break_top),
   Program("continue_top", 0, "", <<>>, continue_top),
   Program("break_fn", 0, "", <<>>, break_fn),
   Program("continue_after", 0, "", <<>>, continue_after),
   Program("flag_goto", 0, "", <<>>, flag_goto),
   Program("load_outer", 0, "", <<>>, load_outer),
   Program("break_leak", 0, "", <<>>, break_leak),
   Program("neg_meta", 0, "", <<>>, neg_meta),
   Program("method", 0, "", <<>>, method)}
  \cup {Program("for_lucy", n, "", <<>>, for_lucy(n)) : n \in 0..MaxIter}
  \cup {Program("for_host", n, "", <<>>, for_host(n)) : n \in 0..MaxIter}
  \cup {Program("goto_chain", n, "", <<>>, goto_chain(n)) : n \in 1..MaxChain}
  \cup {Program("meta_lucy", 0, op, <<>>, meta_lucy(op)) : op \in Operators}
  \cup {Program("meta_host", 0, op, <<>>, meta_host(op)) : op \in Operators}
  \cup {Program("side_str", 0, op, <<>>, side_str(op)) : op \in Operators}
  \cup {Program("side_value", 0, op, <<>>, side_value(op)) : op \in Operators}
  \cup {Program("side_plain", 0, op, <<>>, side_plain(op)) : op \in Operators}
  \cup {Program("side_base", 0, op, <<>>, side_base(op)) : op \in Operators}
  \cup {Program("side_right", 0, op, <<>>, side_right(op)) : op \in Operators}
  \cup {Program("call_args", 0, "", args, call_args(args)) : args \in ArgLists}
  \cup {Program("call_closure", 0, "", args, call_closure(args)) : args \in ArgLists}
  \cup {Program("goto_args", 0, "", args, goto_args(args)) : args \in ArgLists}
  \cup {Program("build_table", 10 * i + j, "", <<v1, v2>>,
                  build_table(i, j, <<v1, v2>>)) :
          i \in TableKeys, j \in TableKeys, v1 \in TableValues, v2 \in TableValues}
  \cup {Program("short", n, op, <<>>, short(n, op)) :
          n \in 1..Len(Operands), op \in ShortCircuit}
  \cup {Program("test_if", n, "", <<>>, test_if(n)) : n \in 1..Len(Operands)}
  \cup {Program("test_not", n, "", <<>>, test_not(n)) : n \in 1..Len(Operands)}
  \cup {Program("assert_call", n, "", <<>>, assert_call(n)) : n \in 1..Len(Operands)}
  \cup {Program("arith", 0, op, <<a, b>>, arith(op, <<a, b>>)) :
          op \in Operators, a \in Primitives, b \in Primitives}
  \cup {Program("neg", n, "", <<>>, neg(n)) : n \in 1..Len(Operands)}
  \cup {Program("bool_arith", 10 * i + j, op, <<>>, bool_arith(i, j, op)) :
          i \in BoolOperands, j \in BoolOperands, op \in Operators}
  \cup {Built("jump_if_true", n, jump_if_true(n)) : n \in 1..Len(Operands)}

(***************************************************************************)
(* The specification: LVM.__init__ on the generated program, then the      *)
(* turns of the loop of LVM.run.                                           *)
(***************************************************************************)
Init ==
  \E program \in Programs :
    /\ input = program.input
    /\ LET files == IF "files" \in DOMAIN program THEN program.files ELSE <<>>
           code == [n \in 0..Len(files) |->
                      IF n = 0 /\ "ast" \notin DOMAIN program THEN program.code_program
                      ELSE generate(IF n = 0 THEN program.ast ELSE files[n].ast)]
       IN /\ packages = <<code[0]>>
          /\ package_paths = [n \in 1..Len(files) |->
                                [name |-> files[n].name, code_program |-> code[n]]]
    /\ lvm = [module_id |-> 0, global_stack_frame |-> 1, builtin_namespace |-> 2]
    /\ suspended = <<>>
    /\ tables = InitialTables
    /\ closures = InitialClosures
    /\ call_stack = <<StackFrame(1, <<>>, <<0, 0>>, FALSE)>>
    /\ current_module_id = 0
    /\ pc = 0
    \* a CodeGeneratorError leaves no program to run
    /\ status = IF packages[1].error = "" THEN "running" ELSE "error"
    /\ error = packages[1].error
    /\ generator = CodeGenerator
    /\ added = <<>>
    \* the AST generate() compiled into packages[0] (none for a program given
    \* as code)
    /\ ast_node = IF "ast" \in DOMAIN program THEN program.ast ELSE NoNode
    /\ emitted = <<>>
    /\ tokens = <<>>

Next ==
  \/ LoadConst
  \/ LoadName
  \/ Store
  \/ Pop
  \/ Dup
  \/ DupTwo
  \/ RotTwo
  \/ Global
  \/ Import
  \/ BuildTableOp
  \/ GetAttrItem
  \/ SetAttrItem
  \/ For
  \/ BinaryOp
  \/ CompareOp
  \/ Jump
  \/ JumpIfFalse
  \/ JumpIfTrue
  \/ JumpIfTrueOrPop
  \/ JumpIfFalseOrPop
  \/ Not
  \/ Neg
  \/ Call
  \/ Goto
  \/ Return
  \/ FetchError

Spec == Init /\ [][Next]_vars

(***************************************************************************)
(* The constant pool on its own: a CodeGenerator on which add_const_list   *)
(* is called with any sequence of constants, as gen_code calls it for the  *)
(* literals, names of attributes, import paths and functions of a          *)
(* program.  No LVM runs.                                                  *)
(***************************************************************************)
\* the constants added: None, the booleans, ints, floats and strings
ConstValues ==
  {Null, BoolV(TRUE), BoolV(FALSE), IntV(0), IntV(1), FloatV(0), FloatV(1),
   StrV(""), StrV("1")}

\* an LVM that does not run
NoLVM ==
  /\ packages = <<>>
  /\ package_paths = <<>>
  /\ lvm = [module_id |-> 0, global_stack_frame |-> 1, builtin_namespace |-> 2]
  /\ suspended = <<>>
  /\ tables = InitialTables
  /\ closures = InitialClosures
  /\ call_stack = <<>>
  /\ current_module_id = 0
  /\ pc = 0
  /\ status = "halted"
  /\ error = ""

ConstInit ==
  /\ input = Input("add_const_list", 0, "", <<>>)
  /\ NoLVM
  /\ generator = CodeGenerator
  /\ added = <<>>
  /\ ast_node = NoNode
  /\ emitted = <<>>
  /\ tokens = <<>>

\* index = self.add_const_list(value), on the generator g
AddConstCall(g, value) ==
  /\ Len(added) < MaxCalls
  /\ generator' = add_const_list(g, value)
  /\ added' = Append(added, [value |-> value, index |-> add_const_index(g, value)])
  /\ UNCHANGED <<input, packages, tables, closures, call_stack, current_module_id,
                 pc, status, error, lvm, suspended, package_paths, ast_node,
                 emitted, tokens>>

\* gen_code of a Literal, a member name or an import path
AddConst == \E value \in ConstValues : AddConstCall(generator, value)

\* gen_code of a FunctionExpression: a new Function object is added
AddFunction ==
  AddConstCall([generator EXCEPT !.naddr = @ + 1],
               Function(generator.naddr + 1, 0, FALSE))

ConstNext == AddConst \/ AddFunction

ConstSpec == ConstInit /\ [][ConstNext]_vars

(***************************************************************************)
(* The code generator on its own: gen_code_statement on one statement, in  *)
(* a CodeGenerator that is generating the bodies of some enclosing loops.  *)
(* No LVM runs.                                                            *)
(***************************************************************************)
\* the statements of a loop body: one without break or continue, a break, a
\* continue, each under an if, and each in the body of a function
Units ==
  {AssignmentStatement(Identifier("x"), "=", Literal(IntV(1))),
   BreakStatement,
   ContinueStatement,
   IfStatement(Identifier("x"), BlockStatement(<<BreakStatement>>), NoNode),
   IfStatement(Identifier("x"), BlockStatement(<<ContinueStatement>>),
               BlockStatement(<<BreakStatement>>)),
   AssignmentStatement(Identifier("f"), "=",
     FunctionExpression(<<>>, BlockStatement(<<BreakStatement>>), FALSE)),
   AssignmentStatement(Identifier("f"), "=",
     FunctionExpression(<<>>, BlockStatement(<<ContinueStatement>>), FALSE))}

LoopKinds == {"loop", "while", "for"}

\* loop { body }, while x { body }, for k in t { body }
Loop(kind, body) ==
  CASE kind = "loop" -> LoopStatement(BlockStatement(body))
    [] kind = "while" -> WhileStatement(Identifier("x"), BlockStatement(body))
    [] kind = "for" ->
         ForStatement(Identifier("k"), Identifier("t"), BlockStatement(body))

\* bodies of one statement, and bodies with a loop between two statements
Bodies ==
  {<<unit>> : unit \in Units}
    \cup {<<first, Loop(kind, <<inner>>), last>> :
            first \in Units, kind \in LoopKinds, inner \in Units, last \in Units}

\* the statements generated: loops and blocks without a loop around them
Statements ==
  {Loop(kind, body) : kind \in LoopKinds, body \in Bodies}
    \cup {BlockStatement(body) : body \in Bodies}

\* the CodeGenerator while it generates the body of the innermost of depth
\* nested loops: each loop made its two Address objects and appended them
RECURSIVE InLoops(_)
InLoops(depth) ==
  IF depth = 0 THEN CodeGenerator
  ELSE LET g == InLoops(depth - 1)
       IN [g EXCEPT !.naddr = @ + 2,
                    !.continue_label_list = Append(@, g.naddr + 1),
                    !.break_label_list = Append(@, g.naddr + 2)]

GenInit ==
  \E depth \in 0..MaxDepth, statement \in Statements :
    /\ input = Input("gen_code_statement", depth, "", <<>>)
    /\ NoLVM
    /\ generator = InLoops(depth)
    /\ added = <<>>
    /\ ast_node = statement
    /\ emitted = <<>>
    /\ tokens = <<>>

\* code_list = self.gen_code_statement(ast_node); a CodeGeneratorError
\* leaves no code
GenCodeStatement ==
  /\ emitted = <<>> /\ generator.error = ""
  /\ LET r == gen_code_statement(ast_node, generator)
     IN /\ generator' = r.g
        /\ emitted' = IF r.g.error = "" THEN r.code ELSE <<>>
  /\ UNCHANGED <<input, packages, tables, closures, call_stack, current_module_id,
                 pc, status, error, lvm, suspended, package_paths, added,
                 ast_node, tokens>>

GenNext == GenCodeStatement

GenSpec == GenInit /\ [][GenNext]_vars

(***************************************************************************)
(* The expression parser on its own: parse_expression on the tokens of an  *)
(* expression of binary and unary operators.  No LVM runs.                 *)
(***************************************************************************)
\* the token types of binary_operator_list
BinaryOperators ==
  {"*", "/", "%", "+", "-", "<", "<=", ">", ">=", "==", "!=", "is", "and", "or"}

Operator(operator) == Token(operator, operator)

\* the tokens of   a op1 b op2 c
Flat(op1, op2) ==
  <<Token("ID", "a"), Operator(op1), Token("ID", "b"), Operator(op2),
    Token("ID", "c"), Token("EOF", "")>>

\* the tokens of   a op1 (1 op2 c)
Grouped(op1, op2) ==
  <<Token("ID", "a"), Operator(op1), Token("(", "("), Token("INTEGER", IntV(1)),
    Operator(op2), Token("ID", "c"), Token(")", ")"), Token("EOF", "")>>

\* the tokens of   a op1 op2 c
Prefixed(op1, op2) ==
  <<Token("ID", "a"), Operator(op1), Operator(op2), Token("ID", "c"),
    Token("EOF", "")>>

\* the unary operators +, - and !
UnaryOperators == {"+", "-", "!"}

\* the tokens of   u1 u2 x
Nested(u1, u2) ==
  <<Operator(u1), Operator(u2), Token("ID", "x"), Token("EOF", "")>>

\* the tokens of   u a op b
UnaryBinary(u, op) ==
  <<Operator(u), Token("ID", "a"), Operator(op), Token("ID", "b"),
    Token("EOF", "")>>

\* the tokens of   u a.b
UnaryMember(u) ==
  <<Operator(u), Token("ID", "a"), Token(".", "."), Token("ID", "b"),
    Token("EOF", "")>>

\* the tokens of   u a[1]
UnaryIndex(u) ==
  <<Operator(u), Token("ID", "a"), Token("[", "["), Token("INTEGER", IntV(1)),
    Token("]", "]"), Token("EOF", "")>>

\* the tokens of   u a(1, b)
UnaryCall(u) ==
  <<Operator(u), Token("ID", "a"), Token("(", "("), Token("INTEGER", IntV(1)),
    Token(",", ","), Token("ID", "b"), Token(")", ")"), Token("EOF", "")>>

TokenLists ==
  {Flat(op1, op2) : op1 \in BinaryOperators, op2 \in BinaryOperators}
    \cup {Grouped(op1, op2) : op1 \in BinaryOperators, op2 \in BinaryOperators}
    \cup {Prefixed(op1, op2) : op1 \in BinaryOperators, op2 \in BinaryOperators}
    \cup {Nested(u1, u2) : u1 \in UnaryOperators, u2 \in UnaryOperators}
    \cup {UnaryBinary(u, op) : u \in UnaryOperators, op \in BinaryOperators}
    \cup {UnaryMember(u) : u \in UnaryOperators}
    \cup {UnaryIndex(u) : u \in UnaryOperators}
    \cup {UnaryCall(u) : u \in UnaryOperators}

ParseInit ==
  \E token_list \in TokenLists :
    /\ input = Input("parse_expression", 0, "", <<>>)
    /\ NoLVM
    /\ generator = CodeGenerator
    /\ added = <<>>
    /\ ast_node = NoNode
    /\ emitted = <<>>
    /\ tokens = token_list

\* Parser(lexer).parse_expression(): the Expression, or the ParserError
ParseExpression ==
  /\ ast_node = NoNode
  /\ LET r == parse_expression(Parser(tokens), 1)
     IN ast_node' = IF r.parser.error = "" THEN r.node
                    ELSE [type |-> "ParserError", error_code |-> r.parser.error]
  /\ UNCHANGED <<input, packages, tables, closures, call_stack, current_module_id,
                 pc, status, error, lvm, suspended, package_paths, generator,
                 added, emitted, tokens>>

ParseNext == ParseExpression

ParseSpec == ParseInit /\ [][ParseNext]_vars

(***************************************************************************)
(* Properties.                                                             *)
(***************************************************************************)
\* TableData.get: the value under key in the table r or, when that is Null,
\* along its __base__ chain
RECURSIVE TableGet(_, _, _)
TableGet(tb, r, key) ==
  LET item == TableGetItem(tb[r], key)
      table == TableGetItem(tb[r], StrV("__base__"))
  IN IF ~IsNullData(item) THEN item
     ELSE IF IsTableData(table) THEN TableGet(tb, table.r, key)
     ELSE Null

\* the value of the global variable name
GlobalValue(name) == TableGetItem(tables[GlobalVariables], StrV(name))

\* the operand stack of frame d after the step
StackAfter(d) == call_stack'[d].operate_stack

\* the variables of closure c after the step
VariablesAfter(c) == Variables(tables', closures', c)

\* C1: prototype lookup.  GET_ATTR / GET_ITEM of a hashable key k on a table
\* t that has no direct entry for k, while t["__base__"] is a table that
\* holds k (directly or along its own __base__ chain), pushes the base's
\* value for k and not Null.
C1_PrototypeLookup ==
  [][LET stack == current_operate_stack
         t == Peek(stack, 2)
         k == Peek(stack, 1)
     IN (/\ Running /\ CanFetch
         /\ current_code.op \in {"GET_ATTR", "GET_ITEM"}
         /\ Len(stack) >= 2 /\ IsTableData(t) /\ IsHashable(k)
         /\ ~HasMeta(tables, t, "__getattr__") /\ ~HasMeta(tables, t, "__getitem__")
         /\ ~HasKey(tables[t.r], k)
         /\ ~IsNullData(TableGet(tables, t.r, k)))
        => /\ status' = "running"
           /\ Top(StackAfter(Depth)) = TableGet(tables, t.r, k)]_vars

\* the activations that enclose closure c along base_closure, nearest first
RECURSIVE EnclosingChain(_)
EnclosingChain(c) ==
  IF c = 0 THEN <<>> ELSE <<c>> \o EnclosingChain(closures[c].base_closure)

\* closure c has name bound: its slot is not Null
Bound(c, name) == ~IsNullData(TableGetItem(Variables(tables, closures, c), name))

\* the nearest activation enclosing the current one that has name bound,
\* 0 when there is none
NearestBound(name) ==
  LET chain == EnclosingChain(closures[current_closure].base_closure)
  IN IF \E i \in 1..Len(chain) : Bound(chain[i], name)
     THEN chain[CHOOSE i \in 1..Len(chain) :
                  /\ Bound(chain[i], name)
                  /\ \A j \in 1..(i - 1) : ~Bound(chain[j], name)]
     ELSE 0

\* a STORE that finds its operand
StoreStep ==
  /\ Fetch("STORE")
  /\ Len(current_operate_stack) > 0

\* the maps of all closures but c are as before the step
OthersUnchanged(c) ==
  \A other \in 1..Len(closures) :
    other # c => VariablesAfter(other) = Variables(tables, closures, other)

CodeAt(p) == current_code_program.code_list[p + 1]

\* the first FOR of the frame on top calls the iterator: a Lucy closure gets
\* a frame that returns to the FOR itself, a host closure's result is pushed
\* at once; the iterator stays on the stack and call_flag is set
ForDispatch ==
  LET stack == current_operate_stack
      c == Top(stack)
      function == closures[c.c].function
  IN (/\ Fetch("FOR") /\ ~TopFrame.call_flag
      /\ Len(stack) > 0 /\ IsClosureData(c)
      /\ function.params_num = 0
      /\ status' = "running")
     => IF function.func = ""
        THEN /\ Len(call_stack') = Depth + 1
             /\ call_stack'[Depth] = [TopFrame EXCEPT !.call_flag = TRUE]
             /\ call_stack'[Depth + 1].operate_stack = <<>>
             /\ call_stack'[Depth + 1].return_address = <<current_module_id, pc>>
             /\ ~call_stack'[Depth + 1].no_return
             /\ pc' = function.address
        ELSE /\ Len(call_stack') = Depth
             /\ call_stack'[Depth].call_flag
             /\ Front(StackAfter(Depth)) = stack
             /\ pc' = pc

\* the FOR that runs again with the iterator's result on top: Null ends the
\* loop (the Null is popped, control goes to the POP that discards the
\* iterator), any other value is left for the STORE of the loop variable
ForResume ==
  LET stack == current_operate_stack
  IN (Fetch("FOR") /\ TopFrame.call_flag /\ Len(stack) > 0)
     => /\ Len(call_stack') = Depth
        /\ ~call_stack'[Depth].call_flag
        /\ IF IsNullData(Top(stack))
           THEN /\ StackAfter(Depth) = Drop(stack, 1)
                /\ pc' = current_code.arg
                /\ CodeAt(pc').op = "POP"
           ELSE /\ StackAfter(Depth) = stack
                /\ pc' = pc + 1
                /\ CodeAt(pc').op = "STORE"

\* the top-level loop of for_lucy / for_host has just been left: the POP
\* at the loop's break label has run
AfterLoop ==
  /\ input.name \in {"for_lucy", "for_host"}
  /\ Running /\ CanFetch /\ Depth = 1 /\ pc > 0
  /\ \E p \in 0..(pc - 1) : CodeAt(p).op = "FOR" /\ CodeAt(p).arg = pc - 1

\* what the body of the loop has recorded after n rounds: out[i] is the
\* value of x in round i
Recorded(n) ==
  [i \in 1..n |->
     Entry(IntV(i), IF input.name = "for_lucy" THEN IntV(2 * i) ELSE IntV(i))]

\* the number of calls the iterator has served
IteratorCalls ==
  IF input.name = "for_lucy" THEN GlobalValue("t").i
  ELSE LET c == CHOOSE c \in 1..Len(closures) : closures[c].gen.phase # "none"
       IN closures[c].gen.pos + (IF closures[c].gen.phase = "end" THEN 1 ELSE 0)

\* C3: iterator protocol.  For a Lucy closure or a host closure c that
\* returns v1..vn and then Null, the compiled `for x in c { body }` runs
\* body exactly n times with x = v1..vn in order, calls c exactly n + 1
\* times and leaves the loop with the iterator popped, the operand stack at
\* the depth it had before the loop.
C3_IteratorProtocol ==
  /\ [][ForDispatch /\ ForResume]_vars
  /\ [](AfterLoop =>
          /\ GlobalValue("count") = IntV(input.n)
          /\ tables[GlobalValue("out").r] = Recorded(input.n)
          /\ IteratorCalls = input.n + 1
          /\ current_operate_stack = <<>>)

\* the loop over a host iterator of MaxIter values has been left
C3_Witness ==
  /\ AfterLoop
  /\ input.name = "for_host"
  /\ input.n = MaxIter

\* the callee CALL k / GOTO k finds under its k arguments
Callee == Peek(current_operate_stack, current_code.arg + 1)

\* the closure is a Lucy function (not an ExtendFunction)
IsLucyClosure(v) == IsClosureData(v) /\ closures[v.c].function.func = ""

\* the statement `done = 1;` that ends a program has run
Done == Running /\ Depth = 1 /\ GlobalValue("done") = IntV(1)

\* C4: tail call return address.  GOTO k executed in a frame F pops F and
\* the callee's new frame inherits F's saved return address; when the
\* callee returns, control resumes where F's caller would have resumed, with
\* the callee's return value on the operand stack of F's caller, and no
\* instruction of the function that executed GOTO runs after the GOTO (in
\* goto_lucy, h receives the 7 that g returns, and returns it).
C4_TailCallReturnAddress ==
  /\ [][(/\ Fetch("GOTO")
         /\ Len(current_operate_stack) > current_code.arg
         /\ IsLucyClosure(Callee)
         /\ status' = "running")
        => call_stack'[Len(call_stack')].return_address = current_return_address]_vars
  /\ []((input.name = "goto_lucy" /\ Done) => GlobalValue("z") = IntV(7))

\* C5: tail call depth.  `goto f(args);` executed inside a function at
\* call-stack depth d leaves the call stack at depth d while f runs, for
\* every callable f including host functions.
C5_TailCallDepth ==
  [][(Fetch("GOTO") /\ Depth > 1 /\ status' = "running")
     => Len(call_stack') = Depth]_vars

\* the instruction fetched is one of ADD/SUB/MUL/DIV/MOD/COMPARE_OP
OperatorFetched ==
  /\ Running /\ CanFetch
  /\ current_code.op \in BINARY_OPCODES \union {"COMPARE_OP"}

\* the reserved key of the operator instruction fetched
FetchedKey ==
  IF current_code.op = "COMPARE_OP" THEN MetaKey(cmp_op[current_code.arg + 1])
  ELSE MetaKey(current_code.op)

\* the operator meets a table left operand with a closure under its key:
\* a Lucy closure gets a frame holding <<right, left>> (the prologue pops
\* left first) that returns to the operator itself; a host closure is
\* applied to (left, right) and its result replaces the two operands; in
\* both cases call_flag is set and the primitive operation is not performed
OperatorDispatch ==
  LET stack == current_operate_stack
      arg2 == Peek(stack, 1)
      arg1 == Peek(stack, 2)
      rest == Drop(stack, 2)
      closure == TableGetItem(tables[arg1.r], StrV(FetchedKey))
      function == closures[closure.c].function
  IN (/\ OperatorFetched /\ ~TopFrame.call_flag
      /\ Len(stack) >= 2
      /\ HasMeta(tables, arg1, FetchedKey)
      /\ function.params_num = 2)
     => IF function.func = ""
        THEN /\ Len(call_stack') = Depth + 1
             /\ call_stack'[Depth] =
                  [TopFrame EXCEPT !.operate_stack = rest, !.call_flag = TRUE]
             /\ call_stack'[Depth + 1].operate_stack = <<arg2, arg1>>
             /\ call_stack'[Depth + 1].return_address = <<current_module_id, pc>>
             /\ ~call_stack'[Depth + 1].no_return
             /\ pc' = function.address
             /\ status' = "running"
        ELSE LET r == HostApply(function.func, <<arg1, arg2>>, closure.c,
                                tables, closures)
             IN r.ok => /\ call_stack' =
                             [call_stack EXCEPT ![Depth].operate_stack =
                                                  Append(rest, r.value),
                                                ![Depth].call_flag = TRUE]
                        /\ pc' = pc
                        /\ status' = "running"

\* the operator runs again with call_flag set: it clears the flag, leaves
\* the operand stack (the call's result on the rest) alone and advances
OperatorResume ==
  (OperatorFetched /\ TopFrame.call_flag)
  => /\ call_stack' = [call_stack EXCEPT ![Depth].call_flag = FALSE]
     /\ tables' = tables
     /\ current_module_id' = current_module_id
     /\ pc' = pc + 1
     /\ status' = "running"

\* C6: metamethod re-entry for binary operators.  ADD/SUB/MUL/DIV/MOD/
\* COMPARE_OP with a table left operand whose own mapping holds a closure
\* under the matching reserved key calls that closure with (left, right) and
\* the same instruction as return address; when the call has returned the
\* instruction runs again with call_flag true, clears call_flag, does not
\* perform the primitive operation, leaves exactly the call's return value
\* in place of the two operands and advances pc by one.  In meta_lucy the
\* metamethod returns right + left.v = 42, in meta_host raw_get(left, right)
\* = 6, and r = 1 + (obj op 2) + 3.
C6_MetamethodReentry ==
  /\ [][OperatorDispatch /\ OperatorResume]_vars
  /\ []((input.name = "meta_lucy" /\ Done) => GlobalValue("r") = IntV(46))
  /\ []((input.name = "meta_host" /\ Done) => GlobalValue("r") = IntV(10))

\* the program with a Lucy metamethod under __mod__ has run to its end
C6_Witness ==
  /\ input.name = "meta_lucy"
  /\ input.op = "%"
  /\ Done
  /\ GlobalValue("r") = IntV(46)

\* SET_ATTR / SET_ITEM meets a closure of three parameters under
\* __setattr__ / __setitem__
SetThroughMetamethod ==
  LET stack == current_operate_stack
      arg1 == Peek(stack, 3)
      table_key == IF current_code.op = "SET_ATTR" THEN "__setattr__"
                   ELSE "__setitem__"
      closure == TableGetItem(tables[arg1.r], StrV(table_key))
  IN /\ Running /\ CanFetch /\ current_code.op \in {"SET_ATTR", "SET_ITEM"}
     /\ Len(stack) >= 3
     /\ IsHashable(Peek(stack, 2))
     /\ HasMeta(tables, arg1, table_key)
     /\ closures[closure.c].function.params_num = 3

\* C7: SET_ATTR / SET_ITEM through a metamethod produce no stack value.
\* With a Lucy closure or a host-function closure under __setattr__ /
\* __setitem__, once the metamethod call is complete the frame's operand
\* stack is what a primitive SET leaves: value and key consumed, the object
\* left in place, nothing else pushed.  (The statement's POP then removes
\* the object, so the programs set_lucy and set_host end with an empty
\* stack.)
C7_SetLeavesNoValue ==
  /\ [][(SetThroughMetamethod /\ status' = "running")
        => StackAfter(Depth) = Drop(current_operate_stack, 2)]_vars
  /\ [][(Fetch("RETURN") /\ TopFrame.no_return /\ Len(current_operate_stack) > 0)
        => StackAfter(Depth - 1) = call_stack[Depth - 1].operate_stack]_vars
  /\ []((input.name \in {"set_lucy", "set_host"} /\ Done)
        => current_operate_stack = <<>>)

\* the run of the LVM that executes is over: the first LVM halts with its
\* (current_module_id, pc) at the return address; an LVM that an IMPORT
\* constructed hands over to the LVM waiting in that IMPORT
Halts ==
  IF suspended = <<>>
  THEN /\ status' = "halted"
       /\ call_stack' = <<>>
       /\ current_module_id' = TopFrame.return_address[1]
       /\ pc' = TopFrame.return_address[2]
  ELSE /\ suspended' = Front(suspended)
       /\ lvm' = Top(suspended).lvm
       /\ status' # "halted"

\* C8: RETURN pops the return value, pops the current frame, sets
\* (current_module_id, pc) to that frame's saved return address, pushes the
\* return value on the new top frame's operand stack unless the popped
\* frame was no_return, and halts the VM exactly when the call stack
\* becomes empty; every other frame's operand stack and variables are
\* unchanged.
C8_Return ==
  /\ [][(Fetch("RETURN") /\ Len(current_operate_stack) > 0)
        => LET return_value == Top(current_operate_stack)
               temp == TopFrame
           IN /\ tables' = tables
              /\ closures' = closures
              /\ IF Depth = 1 THEN Halts
                 ELSE /\ status' = "running"
                      /\ UNCHANGED <<lvm, suspended>>
                      /\ current_module_id' = temp.return_address[1]
                      /\ pc' = temp.return_address[2]
                      /\ Len(call_stack') = Depth - 1
                      /\ \A d \in 1..(Depth - 1) :
                           call_stack'[d] =
                             IF d = Depth - 1 /\ ~temp.no_return
                             THEN [call_stack[d] EXCEPT
                                     !.operate_stack = Append(@, return_value)]
                             ELSE call_stack[d]]_vars
  /\ [][(status' = "halted" \/ Len(suspended') < Len(suspended))
        => Fetch("RETURN") /\ Depth = 1]_vars

\* the __setitem__ metamethod of set_lucy has returned from its no_return
\* frame, and the program has run on to its end
C8_Witness ==
  /\ input.name = "set_lucy"
  /\ Done
  /\ tables[GlobalValue("log").r] = <<Entry(StrV("a"), IntV(1))>>

\* the prologue of the function called with the arguments input.args has
\* just run: the frame of the call is on top, at the first instruction
\* after the STOREs of the parameters
AfterPrologue ==
  /\ input.name \in {"call_args", "call_closure"}
  /\ Running /\ Depth = 2
  /\ closures[current_closure].function.params_num = Len(input.args)
  /\ pc = closures[current_closure].function.address + Len(input.args)

\* CALL k meets a Lucy closure of k parameters under its k arguments
CallsLucyClosure ==
  /\ Fetch("CALL")
  /\ Len(current_operate_stack) > current_code.arg
  /\ IsLucyClosure(Callee)
  /\ closures[Callee.c].function.params_num = current_code.arg

CallsTable ==
  /\ Fetch("CALL")
  /\ Len(current_operate_stack) > current_code.arg
  /\ HasMeta(tables, Callee, "__call__")

\* C10: callable tables.  CALL k whose callee is a table with a closure
\* under __call__ invokes that closure with k + 1 arguments, the table
\* itself being the additional one and received as the closure's first
\* parameter, before a1..ak; the arity check is made against k + 1.  (A
\* Lucy closure's frame holds the table on top of ak..a1, where the prologue
\* pops it first; a host closure is applied to (table, a1, .., ak).  In
\* callable_lucy the closure returns a - b + self.v = 5 - 3 + 10, in
\* callable_host raw_get(obj, 5) = 6, and callable_arity calls a closure of
\* one parameter with one argument.)
C10_CallableTable ==
  /\ [][CallsTable
        => LET k == current_code.arg
               stack == current_operate_stack
               closure == TableGetItem(tables[Callee.r], StrV("__call__"))
               function == closures[closure.c].function
               arguments == [i \in 1..k |-> Peek(stack, k + 1 - i)]
           IN IF function.params_num # k + 1
              THEN status' = "error" /\ error' = "CALL_ERROR"
              ELSE IF function.func = ""
              THEN /\ Len(call_stack') = Depth + 1
                   /\ call_stack'[Depth].operate_stack = Drop(stack, k + 1)
                   /\ call_stack'[Depth + 1].operate_stack =
                        Append(Reverse(arguments), Callee)
                   /\ closures'[call_stack'[Depth + 1].closure].function = function
                   /\ pc' = function.address
                   /\ status' = "running"
              ELSE LET r == HostApply(function.func, <<Callee>> \o arguments,
                                      closure.c, tables, closures)
                   IN r.ok => /\ StackAfter(Depth) =
                                   Append(Drop(stack, k + 1), r.value)
                              /\ pc' = pc + 1
                              /\ status' = "running"]_vars
  /\ []((input.name = "callable_lucy" /\ Done) => GlobalValue("r") = IntV(12))
  /\ []((input.name = "callable_host" /\ Done) => GlobalValue("r") = IntV(6))
  /\ []((input.name = "callable_arity" /\ ~Running) => error = "CALL_ERROR")

\* the table called with (5, 3) has given its closure's result
C10_Witness ==
  /\ input.name = "callable_lucy"
  /\ Done
  /\ GlobalValue("r") = IntV(12)

\* the closure CALL k would invoke: the callee, or the closure a callable
\* table holds under __call__
CallTarget ==
  IF HasMeta(tables, Callee, "__call__")
  THEN TableGetItem(tables[Callee.r], StrV("__call__"))
  ELSE Callee

\* the number of arguments CALL k supplies to CallTarget
Supplied ==
  current_code.arg + (IF HasMeta(tables, Callee, "__call__") THEN 1 ELSE 0)

\* C11: CALL errors.  CALL k raises TYPE_ERROR when the callee (after the
\* __call__ substitution) is not a closure, and CALL_ERROR when the number
\* of arguments supplied differs from the callee's params_num (and raises
\* neither otherwise); in both cases no frame is pushed and no host function
\* is invoked (no table and no closure, a host iterator included, changes).
C11_CallErrors ==
  [][(Fetch("CALL") /\ Len(current_operate_stack) > current_code.arg)
     => LET mistyped == ~IsClosureData(CallTarget)
            miscounted == /\ ~mistyped
                          /\ closures[CallTarget.c].function.params_num # Supplied
        IN /\ mistyped => (status' = "error" /\ error' = "TYPE_ERROR")
           /\ miscounted => (status' = "error" /\ error' = "CALL_ERROR")
           /\ (mistyped \/ miscounted)
                => /\ Len(call_stack') = Depth
                   /\ tables' = tables
                   /\ closures' = closures
                   /\ pc' = pc
           /\ ~(mistyped \/ miscounted)
                => error' \notin {"TYPE_ERROR", "CALL_ERROR"}]_vars

\* the host function table.raw_set was called with two arguments
C11_Witness ==
  /\ input.name = "call_host"
  /\ status = "error"
  /\ error = "CALL_ERROR"
  /\ tables[GlobalValue("t").r] = <<>>

\* the first value of a sequence that is not Null, Null when there is none
FirstBound(values) ==
  IF \E i \in 1..Len(values) : ~IsNullData(values[i])
  THEN values[CHOOSE i \in 1..Len(values) :
                /\ ~IsNullData(values[i])
                /\ \A j \in 1..(i - 1) : IsNullData(values[j])]
  ELSE Null

\* the bindings of name in the order of the resolution: the local slot (the
\* global frame's binding when the slot holds the sentinel), the enclosing
\* closures from the nearest outwards, the global variables, the builtins
Bindings(name) ==
  LET chain == EnclosingChain(closures[current_closure].base_closure)
      global == TableGetItem(tables[GlobalVariables], name)
  IN <<IF IsGlobalReference(LocalSlot(name)) THEN global ELSE LocalSlot(name)>>
     \o [i \in 1..Len(chain) |->
           TableGetItem(Variables(tables, closures, chain[i]), name)]
     \o <<global, TableGetItem(tables[BuiltinNamespace], name)>>

\* C12: name resolution order.  LOAD_NAME n pushes the first non-Null
\* binding found in this order: the current frame's local slot (redirected
\* to the global frame's map when the slot holds the global sentinel), the
\* variables of the enclosing closures from nearest to outermost along
\* base_closure, the global variables, the builtin namespace.  When nothing
\* binds n it pushes Null and raises no error.  LOAD_NAME changes no
\* variables map.
C12_NameResolution ==
  [][Fetch("LOAD_NAME")
     => /\ status' = "running"
        /\ StackAfter(Depth) =
             Append(current_operate_stack, FirstBound(Bindings(Name(current_code.arg))))
        /\ tables' = tables
        /\ pc' = pc + 1]_vars

\* the frame on top is a function's frame whose local slot for the name of
\* the instruction fetched holds the global sentinel
AliasedInFunction ==
  /\ Running /\ CanFetch
  /\ current_code.op \in {"STORE", "LOAD_NAME"}
  /\ closures[current_closure].global_closure # 0
  /\ IsGlobalReference(LocalSlot(Name(current_code.arg)))

\* GLOBAL n in a function's frame installs the sentinel in the local slot,
\* and a STORE n that finds it there writes (for Null, deletes) n in the
\* global frame's variables and leaves every other map, the local one with
\* its sentinel included, as it was
AliasedStore ==
  /\ (Fetch("GLOBAL") /\ closures[current_closure].global_closure # 0)
       => /\ status' = "running"
          /\ IsGlobalReference(TableGetItem(VariablesAfter(current_closure),
                                            Name(current_code.arg)))
  /\ (AliasedInFunction /\ current_code.op = "STORE"
        /\ Len(current_operate_stack) > 0)
       => /\ status' = "running"
          /\ TableGetItem(tables'[GlobalVariables], Name(current_code.arg)) =
               Top(current_operate_stack)
          /\ OthersUnchanged(GlobalClosure)
          /\ IsGlobalReference(TableGetItem(VariablesAfter(current_closure),
                                            Name(current_code.arg)))

C14_GlobalFrameClosure ==
  /\ [](closures[GlobalClosure].global_closure = GlobalClosure)
  /\ [][(/\ Running /\ CanFetch
         /\ current_closure = GlobalClosure
         /\ current_code.op \in {"STORE", "LOAD_NAME"}
         /\ IsGlobalReference(LocalSlot(Name(current_code.arg)))
         /\ current_code.op = "STORE" => Len(current_operate_stack) > 0)
        => /\ status' = "running"
           /\ OthersUnchanged(GlobalClosure)
           /\ IF current_code.op = "STORE"
              THEN TableGetItem(tables'[GlobalVariables], Name(current_code.arg)) =
                     Top(current_operate_stack)
              ELSE /\ tables' = tables
                   /\ Top(StackAfter(Depth)) =
                        TableGetItem(tables[GlobalVariables], Name(current_code.arg))]_vars

\* table r has no entry for key after the step, and reads Null there
AbsentAfter(r, key) ==
  /\ ~HasKey(tables'[r], key)
  /\ IsNullData(TableGetItem(tables'[r], key))

\* a primitive SET_ATTR / SET_ITEM (no metamethod) stores Null
PrimitiveSetNull ==
  LET stack == current_operate_stack
  IN /\ Running /\ CanFetch /\ current_code.op \in {"SET_ATTR", "SET_ITEM"}
     /\ Len(stack) >= 3
     /\ IsTableData(Peek(stack, 3)) /\ IsHashable(Peek(stack, 2))
     /\ ~HasMeta(tables, Peek(stack, 3),
                 IF current_code.op = "SET_ATTR" THEN "__setattr__" ELSE "__setitem__")
     /\ IsNullData(Peek(stack, 1))

\* CALL 3 applies table.raw_set to (table, hashable key, Null)
RawSetNull ==
  LET stack == current_operate_stack
  IN /\ Fetch("CALL") /\ current_code.arg = 3 /\ Len(stack) > 3
     /\ IsClosureData(Callee)
     /\ closures[Callee.c].function.func = "table_raw_set"
     /\ IsTableData(Peek(stack, 3)) /\ IsHashable(Peek(stack, 2))
     /\ IsNullData(Peek(stack, 1))

\* GET_ATTR / GET_ITEM (no metamethod) reads a key that the table and its
\* __base__ chain do not hold
ReadsMissing ==
  LET stack == current_operate_stack
  IN /\ Running /\ CanFetch /\ current_code.op \in {"GET_ATTR", "GET_ITEM"}
     /\ Len(stack) >= 2
     /\ IsTableData(Peek(stack, 2)) /\ IsHashable(Peek(stack, 1))
     /\ ~HasMeta(tables, Peek(stack, 2),
                 IF current_code.op = "GET_ATTR" THEN "__getattr__" ELSE "__getitem__")
     /\ IsNullData(TableGet(tables, Peek(stack, 2).r, Peek(stack, 1)))

\* C15: delete on Null.  For every table t and hashable key k, after a
\* primitive SET_ITEM / SET_ATTR (no metamethod) or table.raw_set stores
\* Null under k, reading t[k] yields Null and k is not among t's keys;
\* after any sequence of BUILD_TABLE, SET_* and raw_set operations no table
\* holds a key whose value is Null, and reading a missing key yields Null
\* without error.
C15_DeleteOnNull ==
  /\ [][PrimitiveSetNull
        => /\ status' = "running"
           /\ AbsentAfter(Peek(current_operate_stack, 3).r,
                          Peek(current_operate_stack, 2))]_vars
  /\ [][RawSetNull
        => /\ status' = "running"
           /\ AbsentAfter(Peek(current_operate_stack, 3).r,
                          Peek(current_operate_stack, 2))]_vars
  /\ [](\A r \in 1..Len(tables) :
          \A n \in 1..Len(tables[r]) : ~IsNullData(tables[r][n].v))
  /\ [][ReadsMissing
        => /\ status' = "running"
           /\ StackAfter(Depth) = Append(Drop(current_operate_stack, 2), Null)]_vars

\* table_null has run: of the keys stored, only "e" is left
C15_Witness ==
  /\ input.name = "table_null"
  /\ Done
  /\ tables[GlobalValue("t").r] = <<Entry(StrV("e"), IntV(5))>>
  /\ GlobalValue("n") = IntV(1)

\* the step pushes a frame on the call stack of the LVM that executes: an
\* activation begins
Activates == Running /\ suspended' = suspended /\ Len(call_stack') = Depth + 1

\* STORE writes a local of the running function activation
StoresLocal ==
  /\ StoreStep
  /\ current_closure # GlobalClosure
  /\ StoreOwner(Name(current_code.arg)) = current_closure

\* C16: closure independence.  Every CALL of a Lucy function allocates a
\* fresh activation closure that shares function and base_closure with the
\* called value but has its own variables map; two activations of the same
\* function (and two closure values instantiated from the same function
\* constant) never share a variables map, so a STORE of a local in one is
\* invisible in the other.
C16_ClosureIndependence ==
  /\ [][CallsLucyClosure
        => LET new == call_stack'[Depth + 1].closure
           IN /\ Len(call_stack') = Depth + 1
              /\ new = Len(closures) + 1
              /\ Len(closures') = new
              /\ SubSeq(closures', 1, Len(closures)) = closures
              /\ closures'[new].function = closures[Callee.c].function
              /\ closures'[new].base_closure = closures[Callee.c].base_closure
              /\ new # Callee.c]_vars
  /\ [][Activates
        => LET new == call_stack'[Depth + 1].closure
           IN /\ new \notin 1..Len(closures)
              /\ closures'[new].variables \notin 1..Len(tables)
              /\ VariablesAfter(new) = <<>>]_vars
  /\ [](\A c1, c2 \in 1..Len(closures) :
          (c1 # c2 /\ closures[c1].variables # 0)
            => closures[c1].variables # closures[c2].variables)
  /\ [][StoresLocal
        => /\ OthersUnchanged(current_closure)
           /\ TableGetItem(VariablesAfter(current_closure), Name(current_code.arg))
                = Top(current_operate_stack)]_vars

\* closure_pair has run: the two counters counted apart, and the inner
\* activation of f did not see the v of the outer one
C16_Witness ==
  /\ input.name = "closure_pair"
  /\ Done
  /\ GlobalValue("a") = IntV(1)
  /\ GlobalValue("b") = IntV(2)
  /\ GlobalValue("e") = IntV(1)
  /\ IsNullData(GlobalValue("g"))

\* the loop head fetched a short-circuit jump over a left operand
ShortCircuitStep ==
  /\ Running /\ CanFetch
  /\ current_code.op \in {"JUMP_IF_FALSE_OR_POP", "JUMP_IF_TRUE_OR_POP"}
  /\ Len(current_operate_stack) > 0

\* C17: short-circuit operators let any value through.  For `a and b` /
\* `a or b`, JUMP_IF_FALSE_OR_POP / JUMP_IF_TRUE_OR_POP accept a left operand
\* of any value kind without error; when the operator short-circuits, the
\* left operand is left unchanged on the stack as the expression's result,
\* otherwise it is popped and the right operand's value is the result.
C17_ShortCircuit ==
  [][ShortCircuitStep
     => LET stack == current_operate_stack
            left == Top(stack)
            decides == BoolV(current_code.op = "JUMP_IF_TRUE_OR_POP")
        IN /\ status' = "running"
           /\ \/ pc' = current_code.arg /\ StackAfter(Depth) = stack
              \/ pc' = pc + 1 /\ StackAfter(Depth) = Drop(stack, 1)
           /\ IsBooleanData(left)
                => (pc' = current_code.arg <=> left = decides)]_vars

\* the loop head fetched a test of the value on top of the stack
BooleanTest ==
  /\ Running /\ CanFetch
  /\ current_code.op \in {"JUMP_IF_TRUE", "JUMP_IF_FALSE", "NOT"}
  /\ Len(current_operate_stack) > 0

\* C18: strictly boolean tests.  JUMP_IF_TRUE, JUMP_IF_FALSE and NOT raise
\* TYPE_ERROR whenever the popped operand is not a Bool (including Null,
\* Int 0/1, strings and tables); for a Bool operand JUMP_IF_TRUE jumps iff it
\* is true, JUMP_IF_FALSE jumps iff it is false, and both pop the operand in
\* either case (NOT replaces a Bool operand by its negation).
C18_BooleanTests ==
  [][BooleanTest
     => LET stack == current_operate_stack
            arg == Top(stack)
        IN IF ~IsBooleanData(arg)
           THEN status' = "error" /\ error' = "TYPE_ERROR"
           ELSE /\ status' = "running"
                /\ CASE current_code.op = "JUMP_IF_TRUE" ->
                          /\ pc' = IF arg.b THEN current_code.arg ELSE pc + 1
                          /\ StackAfter(Depth) = Drop(stack, 1)
                     [] current_code.op = "JUMP_IF_FALSE" ->
                          /\ pc' = IF arg.b THEN pc + 1 ELSE current_code.arg
                          /\ StackAfter(Depth) = Drop(stack, 1)
                     [] current_code.op = "NOT" ->
                          /\ pc' = pc + 1
                          /\ StackAfter(Depth) = Append(Drop(stack, 1), BoolV(~arg.b))]_vars

\* JUMP_IF_TRUE met the Int 1 and raised TYPE_ERROR with the operand popped
C18_Witness ==
  /\ input.name = "jump_if_true"
  /\ Operands[input.n] = Literal(IntV(1))
  /\ status = "error" /\ error = "TYPE_ERROR"
  /\ pc = 1
  /\ call_stack[1].operate_stack = <<>>

\* the operator of the arithmetic or comparison instruction fetched
OperatorName ==
  IF current_code.op = "COMPARE_OP" THEN cmp_op[current_code.arg + 1]
  ELSE current_code.op

\* the loop head fetched a binary operator over two primitive operands (and
\* not the return from a metamethod)
PrimitiveOperation ==
  /\ Running /\ CanFetch
  /\ current_code.op \in BINARY_OPCODES \cup {"COMPARE_OP"}
  /\ ~TopFrame.call_flag
  /\ Len(current_operate_stack) >= 2
  /\ IsHashable(Peek(current_operate_stack, 2))
  /\ IsHashable(Peek(current_operate_stack, 1))

IsInt(v) == v.t = "int"
IsNumber(v) == v.t \in {"int", "float"}

\* q is the floor of x / y
IsFloorOf(q, x, y) ==
  IF y > 0 THEN q * y <= x /\ x < (q + 1) * y
  ELSE q * y >= x /\ x > (q + 1) * y

\* the step ends the instruction with this value in place of the operands
Yields(value) ==
  /\ status' = "running"
  /\ pc' = pc + 1
  /\ StackAfter(Depth) = Append(Drop(current_operate_stack, 2), value)

\* the step ends the instruction with some value in place of the operands
Succeeds ==
  /\ status' = "running"
  /\ pc' = pc + 1
  /\ Len(StackAfter(Depth)) = Len(current_operate_stack) - 1

\* what C19 says of one operation; zero tells whether a zero divisor of DIV
\* and MOD is taken apart as ZeroDivisionError
NumericRule(zero) ==
  LET arg1 == Peek(current_operate_stack, 2)
      arg2 == Peek(current_operate_stack, 1)
      op == OperatorName
      same == \/ IsInt(arg1) /\ IsInt(arg2)
              \/ IsFloatData(arg1) /\ IsFloatData(arg2)
      mixed == \/ IsInt(arg1) /\ IsFloatData(arg2)
               \/ IsFloatData(arg1) /\ IsInt(arg2)
               \/ IsStringData(arg1) /\ IsNumber(arg2)
               \/ IsNumber(arg1) /\ IsStringData(arg2)
  IN IF op \in {"==", "!="} THEN Succeeds
     ELSE IF mixed THEN status' = "error" /\ error' = "TYPE_ERROR"
     ELSE IF op = "ADD" /\ IsStringData(arg1) /\ IsStringData(arg2)
     THEN Yields(StrV(arg1.s \o arg2.s))
     ELSE IF ~same THEN TRUE
     ELSE IF zero /\ op \in {"DIV", "MOD"} /\ NumVal(arg2) = 0
     THEN status' = "error" /\ error' = "ZeroDivisionError"
     ELSE /\ Succeeds
          /\ (op = "DIV" /\ IsInt(arg1))
               => /\ IsInt(Top(StackAfter(Depth)))
                  /\ IsFloorOf(Top(StackAfter(Depth)).i, arg1.i, arg2.i)
          /\ (op \in {"ADD", "SUB", "MUL", "MOD"})
               => Top(StackAfter(Depth)).t = arg1.t
          /\ (op \in {"<", "<=", ">", ">="})
               => IsBooleanData(Top(StackAfter(Depth)))

\* C19 as stated: the operations on Int with Int and Float with Float succeed
\* whatever the divisor.
C19_AsStated == [][PrimitiveOperation => NumericRule(FALSE)]_vars

\* C19: no implicit numeric coercion.  For primitive operands,
\* ADD/SUB/MUL/DIV/MOD and the ordering comparisons succeed on Int with Int
\* and Float with Float, except DIV and MOD by zero, which raise Python's
\* ZeroDivisionError (ADD also succeeds on String with String, giving the
\* concatenation), and raise TYPE_ERROR for Int with Float in either order
\* and for a String with a number; Int/Int DIV is floor division.  `==` and
\* `!=` never raise.
C19_NoCoercion == [][PrimitiveOperation => NumericRule(TRUE)]_vars

\* -7 / 2 has given -4
C19_Witness ==
  /\ input.name = "arith"
  /\ input.op = "/"
  /\ input.args = <<IntV(-7), IntV(2)>>
  /\ Done
  /\ GlobalValue("r") = IntV(-4)

\* the code program of the package file the IMPORT fetched names
ImportedCode == PackageCode(SplitPath(Const(current_code.arg).s)[1])

\* the loop head fetched the IMPORT of a package file (one that compiles)
ImportsFile ==
  /\ Fetch("IMPORT")
  /\ ~HasKey(lib_table, StrV(SplitPath(Const(current_code.arg).s)[1]))
  /\ HasPackage(SplitPath(Const(current_code.arg).s)[1])
  /\ ImportedCode.error = ""

\* C20: fresh module ids.  Every file import, in any sequence of imports
\* (several imports in one module, or imports nested inside imported
\* modules), appends the newly compiled CodeProgram to packages and runs the
\* child VM with a module_id that is the index of that program in packages;
\* no two imported programs share a module_id (the index of an appended
\* program is new, and is the module_id of no LVM waiting in an IMPORT), and
\* the child executes the program just compiled.
C20_FreshModuleIds ==
  [][ImportsFile
     => /\ packages' = Append(packages, ImportedCode)
        /\ lvm'.module_id = Len(packages)
        /\ \A n \in 1..Len(suspended') :
             suspended'[n].lvm.module_id # lvm'.module_id
        /\ current_module_id' = lvm'.module_id
        /\ pc' = 0
        /\ packages'[current_module_id' + 1] = ImportedCode
        /\ status' = "running"]_vars

\* the function whose body the current frame executes (None in a global
\* frame)
CurrentFunction == closures[current_closure].function

\* function is a constant of the CodeProgram with module id m: it was
\* compiled there
CompiledIn(function, m) ==
  /\ m + 1 \in 1..Len(packages)
  /\ \E n \in 1..Len(packages[m + 1].const_list) :
       packages[m + 1].const_list[n] = function

\* the step pushes a frame for a Lucy function
EntersFunction ==
  /\ Running /\ status' = "running"
  /\ suspended' = suspended
  /\ Len(call_stack') = Depth + 1

\* C21: cross-module calls fetch from the defining program.  Whenever a
\* function body is executing, the current module id names the CodeProgram
\* in which that function was compiled, so instructions, constants and names
\* are read from it: for functions of an imported module called from the
\* importer and for the closures such functions create while running in the
\* importer's VM.  A call records the caller's module id in the return
\* address, and after RETURN the current module id is the caller's again.
C21_DefiningProgram ==
  /\ []((Running /\ Depth > 0 /\ CurrentFunction.t = "function")
          => CompiledIn(CurrentFunction, current_module_id))
  /\ [][/\ EntersFunction
          => call_stack'[Depth + 1].return_address[1] = current_module_id
        /\ (Fetch("RETURN") /\ Len(current_operate_stack) > 0 /\ Depth > 1)
          => current_module_id' = current_return_address[1]]_vars

\* the Function constants of code program p
FunctionsOf(p) ==
  {f \in {p.const_list[n] : n \in 1..Len(p.const_list)} : f.t = "function"}

\* a Function marked as a closure that is written inside another Function
NestedClosure(f) == f.t = "function" /\ f.is_closure /\ f.base_function # 0

\* C22: closure flag propagation.  After code generation, whenever a
\* Function has is_closure = true, the Function that lexically encloses it
\* (and so, level by level, every enclosing Function) has is_closure = true
\* too; at run time every instance of such a closure has as base_closure an
\* activation of the enclosing Function, itself marked, so that the
\* base_closure chain of the innermost closure reaches the activations of
\* all enclosing functions and a name bound two or more levels out is found.
C22_ClosureFlagPropagation ==
  /\ \A m \in 0..(Len(packages) - 1) :
       \A f \in FunctionsOf(packages[m + 1]) :
         NestedClosure(f)
           => \E b \in FunctionsOf(packages[m + 1]) :
                b.id = f.base_function /\ b.is_closure
  /\ \A c \in 1..Len(closures) :
       NestedClosure(closures[c].function)
         => /\ closures[c].base_closure # 0
            /\ closures[closures[c].base_closure].function.id
                 = closures[c].function.base_function
            /\ closures[closures[c].base_closure].function.is_closure

\* the opcodes whose argument is an address
JumpOpcodes ==
  {"JUMP", "JUMP_IF_TRUE", "JUMP_IF_FALSE", "JUMP_IF_TRUE_OR_POP",
   "JUMP_IF_FALSE_OR_POP", "FOR"}

\* the CodePrograms the generator returned: those of packages and of the
\* package files (a generation that raised returns none)
GeneratedPrograms ==
  {p \in {packages[n] : n \in 1..Len(packages)}
           \cup {package_paths[n].code_program : n \in 1..Len(package_paths)} :
     p.error = ""}

\* the instruction of p at address a
At(p, a) == p.code_list[a + 1]

\* address a is where the body of f starts in p: the code before it ends
\* with the LOAD_CONST None, RETURN that closes the main code or the body of
\* another function, and the body begins with the STOREs of f's parameters
BodyStartsAt(p, f, a) ==
  /\ a \in 2..(Len(p.code_list) - 1)
  /\ At(p, a - 1).op = "RETURN"
  /\ At(p, a - 2) = [op |-> "LOAD_CONST", arg |-> 0]
  /\ a + f.params_num < Len(p.code_list)
  /\ \A k \in 0..(f.params_num - 1) : At(p, a + k).op = "STORE"

\* C23: jump resolution.  In every CodeProgram returned by generate(), every
\* instruction whose opcode is JUMP, JUMP_IF_TRUE, JUMP_IF_FALSE,
\* JUMP_IF_TRUE_OR_POP, JUMP_IF_FALSE_OR_POP or FOR has an integer argument
\* t with 0 <= t < len(code), no placeholder Address remains in the code
\* list (every item is an instruction, with no Address as its argument), and
\* the address of each Function constant is the index of the first
\* instruction of its body, different for different Functions.
C23_JumpResolution ==
  \A p \in GeneratedPrograms :
    /\ \A n \in 1..Len(p.code_list) :
         /\ DOMAIN p.code_list[n] = {"op", "arg"}
         /\ p.code_list[n].op # "LABEL"
         /\ p.code_list[n].arg \in Int
         /\ p.code_list[n].op \in JumpOpcodes
              => p.code_list[n].arg \in 0..(Len(p.code_list) - 1)
    /\ \A f \in FunctionsOf(p) :
         /\ BodyStartsAt(p, f, f.address)
         /\ \A other \in FunctionsOf(p) : other.address = f.address => other = f

\* the VM runs the body of f in fn_loop at a resolved jump: the else branch
\* of the if, whose JUMP_IF_FALSE was taken, fetches the JUMP of the break
C23_Witness ==
  /\ input.name = "fn_loop"
  /\ Running /\ Depth = 2
  /\ CompiledIn(CurrentFunction, current_module_id)
  /\ BodyStartsAt(current_code_program, CurrentFunction, CurrentFunction.address)
  /\ Fetch("JUMP")
  /\ \E n \in 1..Len(current_code_program.code_list) :
       /\ current_code_program.code_list[n].op = "JUMP_IF_FALSE"
       /\ current_code_program.code_list[n].arg = pc
  /\ current_code.arg > pc

\* type(a) == type(b) and a == b for two constants
SameConst(a, b) == a.t = b.t /\ PyEq(a, b)

\* C24: constant pool deduplication.  For any sequence of add_const_list
\* calls, two added constants receive the same index iff they have the same
\* type and are equal (so 1, true and 1.0 occupy three distinct slots), the
\* pool never holds two entries of the same type that are equal, and an
\* index once returned keeps denoting the constant it was returned for.
C24_ConstDedup ==
  /\ \A i \in 1..Len(added) : \A j \in 1..Len(added) :
       added[i].index = added[j].index <=> SameConst(added[i].value, added[j].value)
  /\ \A m \in 1..Len(generator.const_list) : \A n \in 1..Len(generator.const_list) :
       m # n => ~SameConst(generator.const_list[m], generator.const_list[n])
  /\ \A i \in 1..Len(added) :
       /\ added[i].index + 1 \in 1..Len(generator.const_list)
       /\ SameConst(generator.const_list[added[i].index + 1], added[i].value)

\* 1.0, true and 1 were added, in this order, and sit in three slots: true
\* in the slot the generator starts with, 1.0 and 1 in two new ones
C24_Witness ==
  /\ Len(added) = 3
  /\ added[1] = [value |-> FloatV(1), index |-> 3]
  /\ added[2] = [value |-> BoolV(TRUE), index |-> 1]
  /\ added[3] = [value |-> IntV(1), index |-> 4]
  /\ Len(generator.const_list) = 5

\* CALL 1 finds the builtin assert under its one argument
CallsAssert ==
  /\ Fetch("CALL")
  /\ current_code.arg = 1
  /\ Len(current_operate_stack) > 1
  /\ IsClosureData(Callee)
  /\ closures[Callee.c].function.func = "lucy_assert"

\* C25: the assert builtin.  Calling assert(x) aborts the execution with
\* the error kind ASSERT_ERROR when x is Null or false; otherwise it pushes
\* x itself as the result of the call, in place of the callee and the
\* argument, and the execution continues at the next instruction.
C25_Assert ==
  [][CallsAssert
     => LET x == Top(current_operate_stack)
        IN IF IsNullData(x) \/ x = BoolV(FALSE)
           THEN status' = "error" /\ error' = "ASSERT_ERROR"
           ELSE /\ status' = "running"
                /\ StackAfter(Depth) = Append(Drop(current_operate_stack, 2), x)
                /\ pc' = pc + 1
                /\ current_module_id' = current_module_id
                /\ Len(call_stack') = Depth]_vars

\* load_code(dump_code(p))
RoundTrip(p) ==
  LET dumped_code == dump_code(p)
  IN IF dumped_code.ok THEN load_code(dumped_code.value) ELSE dumped_code

\* C26: serialization round trip.  For every CodeProgram p emitted by the
\* code generator, load_code(dump_code(p)) succeeds and yields a CodeProgram
\* with the same instruction sequence (opcode and argument), the same
\* constants (a Function constant keeping params_num and address) and the
\* same names, so that executing it is executing p.
C26_RoundTrip ==
  \A p \in GeneratedPrograms :
    LET loaded == RoundTrip(p)
    IN /\ loaded.ok
       /\ loaded.value.code_list = p.code_list
       /\ Len(loaded.value.const_list) = Len(p.const_list)
       /\ \A n \in 1..Len(p.const_list) :
            IF p.const_list[n].t = "function"
            THEN /\ loaded.value.const_list[n].t = "function"
                 /\ loaded.value.const_list[n].params_num = p.const_list[n].params_num
                 /\ loaded.value.const_list[n].address = p.const_list[n].address
            ELSE loaded.value.const_list[n] = p.const_list[n]
       /\ loaded.value.name_list = p.name_list

\* GOTO k in a function, compiled from `goto f(a1, .., ak);`: the code of
\* the arguments has pushed a1 .. ak, the code of the callee has pushed the
\* value of f above them, and that value is a Lucy closure of k parameters
GotoLucyClosure ==
  /\ Fetch("GOTO")
  /\ Depth > 1
  /\ Len(current_operate_stack) > current_code.arg
  /\ IsLucyClosure(Top(current_operate_stack))
  /\ closures[Top(current_operate_stack).c].function.params_num = current_code.arg

\* C27: goto argument passing.  The code generated for `goto f(a1, .., an);`
\* together with GOTO n invokes the value of f as the callee with a1 .. an
\* as its arguments in source order, as CALL n does for `f(a1, .., an)`: the
\* frame that replaces the current one runs f's function from its address
\* with the arguments on its operand stack, the first on top, for every
\* n >= 0.
C27_GotoArguments ==
  [][GotoLucyClosure
     => LET k == current_code.arg
            stack == current_operate_stack
            f == Top(stack)
        IN /\ status' = "running"
           /\ Len(call_stack') = Depth
           /\ closures'[call_stack'[Depth].closure].function = closures[f.c].function
           /\ call_stack'[Depth].operate_stack = [i \in 1..k |-> Peek(stack, i + 1)]
           /\ pc' = closures[f.c].function.address]_vars

\* BUILD_TABLE k finds its 2k operands
BuildsTable ==
  /\ Fetch("BUILD_TABLE")
  /\ Len(current_operate_stack) >= 2 * current_code.arg

\* the key and the value of the i-th pair, in textual order, that
\* BUILD_TABLE k finds on the stack
PairKey(i) == Peek(current_operate_stack, 2 * (current_code.arg - i) + 2)
PairValue(i) == Peek(current_operate_stack, 2 * (current_code.arg - i) + 1)

\* the value of the textually last pair whose key equals key
LastValue(key) ==
  PairValue(CHOOSE i \in 1..current_code.arg :
              /\ PyEq(PairKey(i), key)
              /\ \A j \in (i + 1)..current_code.arg : ~PyEq(PairKey(j), key))

Children(node) ==
  CASE node.type = "BlockStatement" -> node.body
    [] node.type = "IfStatement" -> <<node.test, node.consequent, node.alternate>>
    [] node.type = "LoopStatement" -> <<node.body>>
    [] node.type = "WhileStatement" -> <<node.test, node.body>>
    [] node.type = "ForStatement" -> <<node.left, node.right, node.body>>
    [] node.type \in {"GotoStatement", "ReturnStatement", "UnaryExpression"} ->
         <<node.argument>>
    [] node.type = "GlobalStatement" -> node.arguments
    [] node.type \in {"AssignmentStatement", "BinaryExpression"} ->
         <<node.left, node.right>>
    [] node.type = "FunctionExpression" -> Append(node.params, node.body)
    [] node.type = "Property" -> <<node.key, node.value>>
    [] node.type = "TableExpression" -> node.properties
    [] node.type = "MemberExpression" -> <<node.table, node.property>>
    [] node.type = "CallExpression" -> <<node.callee>> \o node.arguments
    [] OTHER -> <<>>

IsLoop(node) == node.type \in {"LoopStatement", "WhileStatement", "ForStatement"}

\* the number of statements of the given type (BreakStatement or
\* ContinueStatement) written in nodes with no loop of nodes around them
RECURSIVE Outside(_, _)
Outside(nodes, type) ==
  IF nodes = <<>> THEN 0
  ELSE (IF nodes[1].type = type THEN 1
        ELSE IF IsLoop(nodes[1]) THEN 0
        ELSE Outside(Children(nodes[1]), type))
         + Outside(Tail(nodes), type)

\* the code generated for ast_node and for the functions written in it
AllCode == emitted \o FuncCode(generator.func_list)

\* the number of JUMP instructions generated whose target is the Address lab
JumpsTo(lab) ==
  Cardinality({n \in 1..Len(AllCode) :
                 AllCode[n].op = "JUMP" /\ AllCode[n].lab = lab})

\* gen_code_statement has returned code for ast_node
Generated == emitted # <<>>

\* where the loop ast_node ends in its code: the JUMP that closes it (a `for`
\* loop has the POP of its iterator after the label that follows)
ClosingJump == IF ast_node.type = "ForStatement" THEN Len(emitted) - 2
               ELSE Len(emitted) - 1

\* the labels of the loop ast_node: the one its closing JUMP goes back to
\* and the one placed after that JUMP
ContinueLabel == emitted[ClosingJump].lab
BreakLabel == emitted[ClosingJump + 1].lab

Level(operator) ==
  CASE operator = "or" -> 1
    [] operator = "and" -> 2
    [] operator = "is" -> 3
    [] operator \in {"==", "!="} -> 4
    [] operator \in {"<", "<=", ">", ">="} -> 5
    [] operator \in {"+", "-"} -> 6
    [] operator \in {"*", "/", "%"} -> 7

\* parse_expression has returned
Parsed3(op1, op2) == tokens = Flat(op1, op2) /\ ast_node # NoNode

\* C30: binary operator grouping.  For every expression a op1 b op2 c over
\* the binary operators, parse_expression yields (a op1 b) op2 c when the
\* level of op1 is that of op2 or higher (all binary operators are
\* left-associative) and a op1 (b op2 c) when the level of op1 is lower.
C30_BinaryGrouping ==
  \A op1 \in BinaryOperators, op2 \in BinaryOperators :
    Parsed3(op1, op2)
      => ast_node
           = IF Level(op1) >= Level(op2)
             THEN BinaryExpression(
                    BinaryExpression(Identifier("a"), op1, Identifier("b")),
                    op2, Identifier("c"))
             ELSE BinaryExpression(
                    Identifier("a"), op1,
                    BinaryExpression(Identifier("b"), op2, Identifier("c")))

\* a is b == c has been parsed as a is (b == c), and would be (a is b) == c
\* if `is` were on the level of ==
C30_Witness ==
  /\ Parsed3("is", "==")
  /\ ast_node.operator = "is"
  /\ ast_node.right = BinaryExpression(Identifier("b"), "==", Identifier("c"))

\* parse_expression has returned for the token list
ParsedTokens(token_list) == tokens = token_list /\ ast_node # NoNode

\* C31: unary operators are right-associative prefix operators of
\* precedence 8.  A unary +, - or ! applied to another unary expression
\* parses as nested Unary nodes (- - x, ! - x); a unary operator binds
\* tighter than every binary operator (-a * b is (-a) * b) and looser than
\* call and member syntax (-a.b is -(a.b), likewise -a[1] and -a(1, b)).
C31_UnaryOperators ==
  /\ \A u1 \in UnaryOperators, u2 \in UnaryOperators :
       ParsedTokens(Nested(u1, u2))
         => ast_node = UnaryExpression(u1, UnaryExpression(u2, Identifier("x")))
  /\ \A u \in UnaryOperators, op \in BinaryOperators :
       ParsedTokens(UnaryBinary(u, op))
         => ast_node = BinaryExpression(UnaryExpression(u, Identifier("a")), op,
                                        Identifier("b"))
  /\ \A u \in UnaryOperators :
       /\ ParsedTokens(UnaryMember(u))
            => ast_node = UnaryExpression(u, MemberExpression(Identifier("a"),
                                                Identifier("b"), "."))
       /\ ParsedTokens(UnaryIndex(u))
            => ast_node = UnaryExpression(u, MemberExpression(Identifier("a"),
                                                Literal(IntV(1)), "[]"))
       /\ ParsedTokens(UnaryCall(u))
            => ast_node = UnaryExpression(u, CallExpression(Identifier("a"),
                                                <<Literal(IntV(1)), Identifier("b")>>))

\* value is a Table whose own mapping holds a closure under key
Carries(value, key) ==
  /\ IsTableData(value)
  /\ \E n \in 1..Len(tables[value.r]) :
       /\ tables[value.r][n].k = StrV(key)
       /\ tables[value.r][n].v.t = "closure"

\* the operator fetched is ADD/SUB/MUL/DIV/MOD or an ordering comparison
ArithmeticOrOrdering ==
  current_code.op = "COMPARE_OP" => cmp_op[current_code.arg + 1] \notin {"==", "!="}

\* C32: operator dispatch is decided by the left operand alone.  When
\* ADD/SUB/MUL/DIV/MOD or a comparison meets a left operand that is not a
\* Table carrying a closure under the matching key in its own mapping (a
\* key reachable through __base__ only does not count), no call is
\* dispatched, whatever the right operand carries, and for the arithmetic
\* operators and the ordering comparisons a Table operand on either side
\* then raises TYPE_ERROR; when the left operand carries such a closure the
\* step that goes on running has dispatched the call.
C32_LeftOperandDispatch ==
  [][LET stack == current_operate_stack
         arg2 == Peek(stack, 1)
         arg1 == Peek(stack, 2)
     IN (OperatorFetched /\ ~TopFrame.call_flag /\ Len(stack) >= 2)
          => IF Carries(arg1, FetchedKey)
             THEN status' = "running" => call_stack'[Depth].call_flag
             ELSE /\ Len(call_stack') = Depth
                  /\ ~call_stack'[Depth].call_flag
                  /\ (ArithmeticOrOrdering /\ (IsTableData(arg1) \/ IsTableData(arg2)))
                       => status' = "error" /\ error' = "TYPE_ERROR"]_vars

\* obj < 1, where obj has __lt__ only through its __base__, has raised
\* TYPE_ERROR in the global frame without a call
C32_Witness ==
  /\ input.name = "side_base" /\ input.op = "<"
  /\ status = "error" /\ error = "TYPE_ERROR"
  /\ Depth = 1
  /\ current_code.op = "COMPARE_OP"
  /\ ~Carries(GlobalValue("obj"), "__lt__")
  /\ Carries(GlobalValue("base"), "__lt__")


\* the opcodes that dispatch a call and run again when it has returned
FlagOpcodes == {"FOR", "NEG", "GET_LEN", "COMPARE_OP"} \union BINARY_OPCODES

\* the frame at depth d of the call stack has its call_flag set in this step
FlagRaised(d) ==
  /\ d <= Len(call_stack') /\ call_stack'[d].call_flag
  /\ d <= Len(call_stack) => ~call_stack[d].call_flag

\* a RETURN hands control back to a frame whose call_flag is set
ReturnsToFlagged ==
  /\ Fetch("RETURN") /\ Depth > 1 /\ current_operate_stack # <<>>
  /\ call_stack[Depth - 1].call_flag
  /\ status' = "running"

\* C33: call_flag discipline.  An instruction is fetched with its frame's
\* call_flag true only if it is FOR, NEG, GET_LEN, a binary operator or
\* COMPARE_OP, and then the frame's operand stack holds a value on top (the
\* call's result); every other instruction is fetched with call_flag false.
\* A frame's call_flag is raised only by such an instruction fetched in that
\* frame, and a RETURN into a frame with call_flag set resumes at an
\* instruction of that kind with the returned value on top of the stack.
\* This holds also when the metamethod or iterator executes GOTO.
C33_CallFlagDiscipline ==
  /\ []((Running /\ CanFetch /\ TopFrame.call_flag)
        => /\ current_code.op \in FlagOpcodes
           /\ current_operate_stack # <<>>)
  /\ [][\A d \in 1 .. Len(call_stack') :
          FlagRaised(d) => /\ d = Depth
                           /\ current_code.op \in FlagOpcodes]_vars
  /\ [][ReturnsToFlagged
        => /\ Len(call_stack') = Depth - 1
           /\ packages[current_module_id' + 1].code_list[pc' + 1].op
                \in FlagOpcodes
           /\ Top(call_stack'[Depth - 1].operate_stack)
                = Top(current_operate_stack)]_vars


\* the slot of name in the variables of closure c, now and after the step
SlotOf(c, name) == TableGetItem(Variables(tables, closures, c), name)
SlotAfter(c, name) == TableGetItem(VariablesAfter(c), name)

\* C34: the global sentinel never leaks and is never clobbered by another
\* frame.  LOAD_NAME never pushes a GlobalReference on an operand stack, and
\* a STORE leaves the sentinel in the slot of every closure other than the
\* executing frame's own, also when an inner closure reads or writes a name
\* that an enclosing function declared with `global`.
C34_SentinelContained ==
  /\ [][(Fetch("LOAD_NAME") /\ status' = "running")
        => ~IsGlobalReference(Top(call_stack'[Depth].operate_stack))]_vars
  /\ [][Fetch("STORE")
        => \A c \in 1 .. Len(closures) :
             (/\ c # current_closure
              /\ IsGlobalReference(SlotOf(c, Name(current_code.arg))))
             => IsGlobalReference(SlotAfter(c, Name(current_code.arg)))]_vars


\* the instruction fetched is one of the STOREs of the prologue of the
\* function the top frame is running
PrologueStore ==
  /\ Fetch("STORE") /\ Depth > 1
  /\ LET function == closures[current_closure].function
     IN /\ pc >= function.address
        /\ pc < function.address + function.params_num

\* C35: parameters are local to the callee.  The STOREs of a function's
\* prologue leave the variables of every other closure (every enclosing
\* activation and the global frame) unchanged, and after the prologue each
\* parameter that got a non-Null argument is bound to it in the fresh
\* activation's own variables, also when an enclosing activation binds a
\* variable of the parameter's name.
C35_ParametersLocal ==
  /\ [][PrologueStore
        => \A c \in 1 .. Len(closures) :
             c # current_closure
             => VariablesAfter(c) = Variables(tables, closures, c)]_vars
  /\ [](AfterPrologue
        => \A i \in 1 .. Len(input.args) :
             ~IsNullData(input.args[i])
             => LocalSlot(StrV(ParamNames[i])) = input.args[i])


\* the addresses at which the contiguous code regions of p start: 0 for the
\* top level and the address of each Function
RegionStarts(p) == {0} \union {f.address : f \in FunctionsOf(p)}

\* the region of p that holds address a, named by its start
Region(p, a) ==
  CHOOSE s \in RegionStarts(p) :
    /\ s <= a
    /\ \A other \in RegionStarts(p) : other <= a => other <= s

\* the step runs an instruction that neither pushes nor pops a frame nor
\* replaces one, and the VM keeps running in the same module
StaysInFrame ==
  /\ Running /\ CanFetch /\ status' = "running"
  /\ current_code.op \notin {"CALL", "GOTO", "RETURN"}
  /\ Len(call_stack') = Depth
  /\ suspended' = suspended

\* C36: jumps stay inside one function body.  In every generated
\* CodeProgram each JUMP, JUMP_IF_* and FOR instruction and its target lie
\* in the same contiguous code region (the top level, or one function's
\* body), also the JUMP of a break or continue written in a function body
\* that is defined inside a loop; so a frame's pc never moves into another
\* region except through CALL, GOTO and RETURN.
C36_JumpsInRegion ==
  /\ [](\A p \in GeneratedPrograms :
          \A n \in 1 .. Len(p.code_list) :
            p.code_list[n].op \in JumpOpcodes
            => Region(p, p.code_list[n].arg) = Region(p, n - 1))
  /\ [][StaysInFrame
        => /\ current_module_id' = current_module_id
           /\ Region(current_code_program, pc')
                = Region(current_code_program, pc)]_vars


\* the instruction fetched is the RETURN that ends the top-level code of
\* the running LVM's module, fetched in the global frame
TopLevelReturn ==
  /\ Fetch("RETURN") /\ Depth = 1
  /\ current_closure = GlobalClosure
  /\ current_module_id = lvm.module_id
  /\ \A f \in FunctionsOf(current_code_program) : pc < f.address

\* C37: the global frame stays at the bottom.  While the VM runs, the call
\* stack is not empty and its bottom entry is the frame of the global
\* closure, whatever instructions run (GOTO at top level too); the run of
\* an LVM ends only by the RETURN of its top-level code executed in the
\* global frame.
C37_GlobalFrameAtBottom ==
  /\ [](Running => /\ call_stack # <<>>
                   /\ call_stack[1].closure = GlobalClosure)
  /\ [][(status' = "halted" \/ Len(suspended') < Len(suspended))
        => TopLevelReturn]_vars


\* the number of instructions the generator emits for node, as a statement
\* or as an expression (labels take no place in the code list)
CodeLen(node, statement) ==
  LET r == IF statement THEN gen_code_statement(node, InLoops(1))
           ELSE gen_code(node, InLoops(1))
  IN Cardinality({n \in 1 .. Len(r.code) : r.code[n].op # "LABEL"})

\* a statement after which control does not go on to the next one
Leaves(node) ==
  node.type \in {"ReturnStatement", "GotoStatement", "BreakStatement",
                 "ContinueStatement"}

\* where the statements written in node begin and end in the code generated
\* for node from address base on, each with the number of `for` loops
\* around it: the operand stack of the frame holds one iterator for each
RECURSIVE Boundaries(_, _, _), BlockBoundaries(_, _, _)
Boundaries(node, base, depth) ==
  {<<base, depth>>} \union
  CASE node.type = "BlockStatement" -> BlockBoundaries(node.body, base, depth)
    [] node.type = "IfStatement" ->
         LET consequent == base + CodeLen(node.test, FALSE) + 1
         IN Boundaries(node.consequent, consequent, depth)
            \union IF node.alternate = NoNode THEN {}
                   ELSE Boundaries(node.alternate,
                                   consequent + CodeLen(node.consequent, TRUE) + 1,
                                   depth)
    [] node.type = "LoopStatement" -> Boundaries(node.body, base, depth)
    [] node.type = "WhileStatement" ->
         Boundaries(node.body, base + CodeLen(node.test, FALSE) + 1, depth)
    [] node.type = "ForStatement" ->
         Boundaries(node.body, base + CodeLen(node.right, FALSE) + 2, depth + 1)
    [] OTHER -> {}

BlockBoundaries(nodes, base, depth) ==
  IF nodes = <<>> THEN {<<base, depth>>}
  ELSE Boundaries(nodes[1], base, depth)
       \union IF Len(nodes) = 1 /\ Leaves(nodes[1]) THEN {}
              ELSE BlockBoundaries(Tail(nodes), base + CodeLen(nodes[1], TRUE),
                                   depth)

\* the FunctionExpressions written in nodes in the order in which the
\* generator appends their code to func_list: an inner function before
\* the function it is written in
RECURSIVE FunctionNodes(_)
FunctionNodes(nodes) ==
  IF nodes = <<>> THEN <<>>
  ELSE FunctionNodes(Children(nodes[1]))
       \o (IF nodes[1].type = "FunctionExpression" THEN <<nodes[1]>> ELSE <<>>)
       \o FunctionNodes(Tail(nodes))

\* the Function of p whose code is the k-th after the top-level code
FunctionAt(p, k) ==
  CHOOSE f \in FunctionsOf(p) :
    Cardinality({other \in FunctionsOf(p) : other.address < f.address}) = k - 1

\* the statement boundaries of the code program p generated from ast: those
\* of the top-level code and of each function body after its prologue
ProgramBoundaries(ast, p) ==
  LET nodes == FunctionNodes(<<ast>>)
  IN Boundaries(ast, 0, 0)
     \union UNION {Boundaries(nodes[k].body,
                              FunctionAt(p, k).address + Len(nodes[k].params), 0) :
                     k \in 1 .. Len(nodes)}

\* C38: statements are stack-neutral.  In the code generated for the
\* program, whenever a frame is about to execute the first instruction of
\* a statement, or the instruction after the last statement of a block, its
\* operand stack holds
\* exactly the iterators of the `for` loops around that statement: a
\* complete statement that neither returns nor aborts (expression
\* statement, assignment, if, while, loop, for with break and continue,
\* global, import) leaves the stack at the depth it had before, also when
\* its operators are served by metamethods, and loop iterations do not
\* grow the stack.
C38_StackNeutral ==
  (Running /\ CanFetch /\ current_module_id = 0 /\ ast_node # NoNode)
  => \A b \in ProgramBoundaries(ast_node, current_code_program) :
       b[1] = pc => Len(current_operate_stack) = b[2]


\* the keys 1, true and 1.0, and 0, false and 0.0
NumberKeys ==
  {IntV(1), BoolV(TRUE), FloatV(1), IntV(0), BoolV(FALSE), FloatV(0)}

\* a and b are the same value of the same kind
SameKey(a, b) == a.t = b.t /\ a = b

\* the value of the textually last pair on the stack of BUILD_TABLE whose
\* key is key itself, Null when no pair has it
LastValueOfKind(key) ==
  LET same == {i \in 1 .. current_code.arg : SameKey(PairKey(i), key)}
  IN IF same = {} THEN Null
     ELSE PairValue(CHOOSE i \in same : \A j \in same : j <= i)

\* a primitive SET_ATTR / SET_ITEM (no metamethod) on a table with a
\* hashable key
PrimitiveSet ==
  LET stack == current_operate_stack
  IN /\ Running /\ CanFetch /\ current_code.op \in {"SET_ATTR", "SET_ITEM"}
     /\ Len(stack) >= 3
     /\ IsTableData(Peek(stack, 3)) /\ IsHashable(Peek(stack, 2))
     /\ ~HasMeta(tables, Peek(stack, 3),
                 IF current_code.op = "SET_ATTR" THEN "__setattr__" ELSE "__setitem__")

\* C39: table keys of different value kinds are distinct entries.  The keys
\* 1 (Int), true (Bool) and 1.0 (Float), and likewise 0, false and 0.0,
\* address independent entries: a table built by BUILD_TABLE reads under
\* each of them the value of the last pair written with that very key, and
\* a SET_ITEM under one of them leaves what the table reads under the keys
\* of the other kinds unchanged.
C39_DistinctKeyKinds ==
  /\ [][(BuildsTable /\ status' = "running")
        => \A key \in NumberKeys :
             TableGetItem(tables'[Len(tables) + 1], key) = LastValueOfKind(key)]_vars
  /\ [][PrimitiveSet
        => LET r == Peek(current_operate_stack, 3).r
               key == Peek(current_operate_stack, 2)
           IN \A other \in NumberKeys :
                other.t # key.t
                => TableGetItem(tables'[r], other) = TableGetItem(tables[r], other)]_vars


\* ADD, SUB, MUL, DIV, MOD or an ordering comparison is fetched with a Bool
\* among its two operands (and no metamethod to call), or NEG with a Bool
\* operand
BoolOperand ==
  LET stack == current_operate_stack
  IN /\ Running /\ CanFetch /\ ~TopFrame.call_flag
     /\ \/ /\ OperatorFetched /\ ArithmeticOrOrdering
           /\ Len(stack) >= 2
           /\ ~HasMeta(tables, Peek(stack, 2), FetchedKey)
           /\ IsBooleanData(Peek(stack, 1)) \/ IsBooleanData(Peek(stack, 2))
        \/ /\ current_code.op = "NEG"
           /\ Len(stack) >= 1
           /\ IsBooleanData(Top(stack))

\* C40: Bool is not a number.  ADD, SUB, MUL, DIV, MOD, NEG and the
\* ordering comparisons raise TYPE_ERROR whenever an operand is a Bool
\* (true + 1, true < 2, -true): no value, and so no Int, is produced from
\* Bool operands.
C40_BoolNotNumber ==
  [][BoolOperand => status' = "error" /\ error' = "TYPE_ERROR"]_vars

=============================================================================
